---------------------------- MODULE Spec2Model ----------------------------
(***************************************************************************)
(* A model of the operation container (bus-mapping) and of the comparator, *)
(* sign-extension and jump-marker gadgets of the EVM circuit, with the     *)
(* value layer (random linear combination, select/and/sum helpers) they   *)
(* are built on.                                                           *)
(*                                                                         *)
(* The module holds its state machines over one set of variables; each    *)
(* specification moves its own variables and leaves the others at rest:    *)
(*   SpecContainer  OperationContainer: new operations, insert, sorted_*   *)
(*   SpecGadget     configure/assign of the Comparator and Signextend      *)
(*   SpecRLC        random_linear_combine against random_linear_combine_expr*)
(*   SpecTrace      execution steps chained by the declared transitions    *)
(*   SpecTable      FixedTableTag::build_all and the lookups into it       *)
(*   SpecCell       Cell::assign and RandomLinearCombination::assign       *)
(*   SpecAssign     assign_exec_step of the steps of a trace, in any order *)
(***************************************************************************)
EXTENDS Integers, Sequences, FiniteSets, TLC

VARIABLES
    \* ---- operation container (container.rs) ----
    memory,          \* OperationContainer.memory  : Seq(Operation<MemoryOp>)
    stack,           \* OperationContainer.stack   : Seq(Operation<StackOp>)
    storage,         \* OperationContainer.storage : Seq(Operation<StorageOp>)
    global_counter,  \* the recorder's GlobalCounter
    pending,         \* operations built by Operation::new and not yet inserted
    returned,        \* the OperationRefs the caller holds, with the operation inserted
    ret,             \* the container method that ran last and what it returned
    \* ---- gadget configure/assign (comparator.rs, signextend.rs) ----
    exec_trace,      \* the ExecTrace handed to assign_exec_step (opcode, rws)
    witness,         \* the cells assign_exec_step wrote
    gadget,          \* which gadget assigned the step ("none" before)
    \* ---- random linear combination (util.rs) ----
    rlc_bytes,       \* the byte array B
    rlc_randomness,  \* the randomness R
    rlc_value,       \* random_linear_combine(B, R)
    rlc_expr,        \* random_linear_combine_expr(cells, R)
    rlc_done,        \* which of the two forms have been computed
    \* ---- execution steps (the tests' ExecTrace.steps) ----
    steps,           \* the steps of the trace, each the successor its gadget declares
    \* ---- fixed table and lookups (table.rs) ----
    fixed_table,     \* the rows collected from FixedTableTag::build_all
    lookup,          \* the Lookup a gadget registered last
    lookup_cells,    \* the values of the cells that lookup's expressions query
    \* ---- witness assignment into the region (util.rs, assign_exec_step) ----
    region,          \* the advice cells assigned: (column, row) -> value
    cell_call,       \* the assign call made last, with what it returned
    assign_trace,    \* the ExecTrace whose steps are assigned
    results          \* per step, what its assign_exec_step came to

container_vars == <<memory, stack, storage, global_counter, pending, returned,
                    ret>>
gadget_vars    == <<exec_trace, witness, gadget>>
rlc_vars       == <<rlc_bytes, rlc_randomness, rlc_value, rlc_expr, rlc_done>>
trace_vars     == <<steps>>
table_vars     == <<fixed_table, lookup, lookup_cells>>
assign_vars    == <<region, cell_call, assign_trace, results>>
vars == <<container_vars, gadget_vars, rlc_vars, trace_vars, table_vars,
          assign_vars>>

\* What each state machine leaves at rest.
container_rest == <<gadget_vars, rlc_vars, trace_vars, table_vars, assign_vars>>
gadget_rest    == <<container_vars, rlc_vars, trace_vars, table_vars, assign_vars>>
rlc_rest       == <<container_vars, gadget_vars, trace_vars, table_vars, assign_vars>>
trace_rest     == <<container_vars, gadget_vars, rlc_vars, table_vars, assign_vars>>
table_rest     == <<container_vars, gadget_vars, rlc_vars, trace_vars, assign_vars>>
assign_rest    == <<container_vars, gadget_vars, rlc_vars, trace_vars, table_vars>>

(***************************************************************************)
(* Generic helpers                                                         *)
(***************************************************************************)
Range(s) == {s[i] : i \in 1..Len(s)}

\* The number of positions of s that hold x.
Count(s, x) == Cardinality({i \in 1..Len(s) : s[i] = x})

IsPermutation(s, t) ==
    /\ Len(s) = Len(t)
    /\ \A i \in 1..Len(s) : Count(s, s[i]) = Count(t, s[i])

(***************************************************************************)
(* Operation container                                                     *)
(***************************************************************************)
\* Bounds of the container model.
MaxOps == 3          \* operations stamped in one recording session
MaxPending == 2      \* operations built and not yet inserted

\* Target (operation.rs, used at container.rs:52-60).
Target == {"Memory", "Stack", "Storage"}

\* The payloads the recorder draws from: the test's three operations and
\* neighbours of them at a second address / key.
StackAddresses == {1022, 1023}
MemoryAddresses == {1, 2}
StorageSlots == {<<0, 1>>, <<1, 0>>}     \* (account address, key)

StackOp(rw, address, value) ==
    [kind |-> "Stack", rw |-> rw, address |-> address, value |-> value]

MemoryOp(rw, address, value) ==
    [kind |-> "Memory", rw |-> rw, address |-> address, value |-> value]

StorageOp(rw, address, key, value, value_prev) ==
    [kind |-> "Storage", rw |-> rw, address |-> address, key |-> key,
     value |-> value, value_prev |-> value_prev]

Payloads ==
    {StackOp("WRITE", a, 256) : a \in StackAddresses}
    \cup {MemoryOp("WRITE", a, 1) : a \in MemoryAddresses}
    \cup {StorageOp("WRITE", k[1], k[2], 1, 0) : k \in StorageSlots}

\* Operation::new(gc, op): a pure constructor.
Operation(gc, op) == [gc |-> gc, op |-> op]

\* Op::into_enum: the payload's variant.
into_enum_Stack(op) == "Stack"

into_enum(op) == op.kind

\* GlobalCounter::default() and GlobalCounter::inc_pre(): the value handed out
\* and the counter after the call.
GlobalCounterDefault == 0
inc_pre_value(gc) == gc
inc_pre_next(gc) == gc + 1

\* The Ord of an operation: the payload's address/key fields first, the
\* global counter second.
OpKey(o) ==
    IF o.op.kind = "Storage" THEN <<o.op.address, o.op.key>>
    ELSE <<o.op.address>>

RECURSIVE KeyLess(_, _)
KeyLess(k1, k2) ==
    IF k1 = <<>> \/ k2 = <<>> THEN FALSE
    ELSE IF Head(k1) # Head(k2) THEN Head(k1) < Head(k2)
    ELSE KeyLess(Tail(k1), Tail(k2))

OperationLess(x, y) ==
    \/ KeyLess(OpKey(x), OpKey(y))
    \/ (OpKey(x) = OpKey(y) /\ x.gc < y.gc)

\* Itertools::sorted(): collect and sort (a stable sort) by Ord.  The new
\* element goes after every element that is not greater than it.
RECURSIVE InsertSorted(_, _)
InsertSorted(s, x) ==
    IF s = <<>> THEN <<x>>
    ELSE IF OperationLess(x, Head(s)) THEN <<x>> \o s
    ELSE <<Head(s)>> \o InsertSorted(Tail(s), x)

RECURSIVE sorted(_)
sorted(s) ==
    IF s = <<>> THEN <<>>
    ELSE InsertSorted(sorted(SubSeq(s, 1, Len(s) - 1)), s[Len(s)])

\* OperationRef::from((target, index)).
OperationRef(target, index) == [target |-> target, index |-> index]

\* The store of a target class.
Store(t) ==
    CASE t = "Memory" -> memory
      [] t = "Stack" -> stack
      [] t = "Storage" -> storage

\* What a container method hands back: insert an OperationRef, sorted_<target>
\* a vector of operations.
Returned(call, value) == [call |-> call, value |-> value]

ContainerInit ==
    /\ memory = <<>>
    /\ stack = <<>>
    /\ storage = <<>>
    /\ global_counter = GlobalCounterDefault
    /\ pending = {}
    /\ returned = <<>>
    /\ ret = Returned("new", <<>>)

\* Operation::new(global_counter.inc_pre(), payload), as the recorder builds
\* an operation before inserting it.
NewOperation_NoInc(payload) ==
    /\ global_counter < MaxOps
    /\ Cardinality(pending) < MaxPending
    /\ pending' = pending \cup {Operation(global_counter, payload)}
    /\ UNCHANGED <<global_counter, memory, stack, storage, returned, ret>>
    /\ UNCHANGED container_rest

NewOperation(payload) ==
    /\ global_counter < MaxOps
    /\ Cardinality(pending) < MaxPending
    /\ pending' = pending \cup {Operation(inc_pre_value(global_counter), payload)}
    /\ global_counter' = inc_pre_next(global_counter)
    /\ UNCHANGED <<memory, stack, storage, returned, ret>>
    /\ UNCHANGED container_rest

\* Vec::push.
Push_Front(store, op) == <<op>> \o store

Push(store, op) == Append(store, op)

\* The index insert returns: the store's length after the push.
InsertIndex_ZeroBased(store_after_push) == Len(store_after_push) - 1

InsertIndex(store_after_push) == Len(store_after_push)

\* OperationContainer::insert(op): push on the store of the payload's variant,
\* return the reference to it.
Insert(op) ==
    /\ op \in pending
    /\ pending' = pending \ {op}
    /\ LET gc == op.gc IN
       CASE into_enum(op.op) = "Memory" ->
              /\ memory' = Push(memory, Operation(gc, op.op))
              /\ ret' = Returned("insert", OperationRef("Memory", InsertIndex(memory')))
              /\ UNCHANGED <<stack, storage>>
         [] into_enum(op.op) = "Stack" ->
              /\ stack' = Push(stack, Operation(gc, op.op))
              /\ ret' = Returned("insert", OperationRef("Stack", InsertIndex(stack')))
              /\ UNCHANGED <<memory, storage>>
         [] into_enum(op.op) = "Storage" ->
              /\ storage' = Push(storage, Operation(gc, op.op))
              /\ ret' = Returned("insert", OperationRef("Storage", InsertIndex(storage')))
              /\ UNCHANGED <<memory, stack>>
    /\ returned' = Append(returned, [ref |-> ret'.value, op |-> op])
    /\ UNCHANGED global_counter
    /\ UNCHANGED container_rest

\* OperationContainer::sorted_memory().
sorted_memory ==
    /\ ret' = Returned("sorted_memory", sorted(memory))
    /\ UNCHANGED <<memory, stack, storage, global_counter, pending, returned>>
    /\ UNCHANGED container_rest

\* OperationContainer::sorted_stack().
sorted_stack_Unsorted ==
    /\ ret' = Returned("sorted_stack", stack)
    /\ UNCHANGED <<memory, stack, storage, global_counter, pending, returned>>
    /\ UNCHANGED container_rest

sorted_stack_InPlace ==
    /\ stack' = sorted(stack)
    /\ ret' = Returned("sorted_stack", stack')
    /\ UNCHANGED <<memory, storage, global_counter, pending, returned>>
    /\ UNCHANGED container_rest

sorted_stack ==
    /\ ret' = Returned("sorted_stack", sorted(stack))
    /\ UNCHANGED <<memory, stack, storage, global_counter, pending, returned>>
    /\ UNCHANGED container_rest

\* OperationContainer::sorted_storage().
sorted_storage ==
    /\ ret' = Returned("sorted_storage", sorted(storage))
    /\ UNCHANGED <<memory, stack, storage, global_counter, pending, returned>>
    /\ UNCHANGED container_rest

ContainerNext ==
    \/ \E p \in Payloads : NewOperation(p)
    \/ \E op \in pending : Insert(op)
    \/ sorted_memory
    \/ sorted_stack
    \/ sorted_storage

(***************************************************************************)
(* Properties of the operation container                                   *)
(***************************************************************************)
\* The operations of `returned` up to position i whose payload is of class t.
InsertionsOf(t, i) == {j \in 1..i : returned[j].op.op.kind = t}

\* C1: the k-th insertion into a target class returns OperationRef (that
\* target, k), k counted from 1 within the class only, whatever was inserted
\* into the other two classes in between.
C1_RefIndexCountsWithinClass ==
    \A i \in 1..Len(returned) :
        returned[i].ref =
            OperationRef(returned[i].op.op.kind,
                         Cardinality(InsertionsOf(returned[i].op.op.kind, i)))

\* C1 witness: a stack, a memory and a second stack insertion, the second
\* stack insertion returning index 2 although it is the third insertion.
C1_Witness ==
    /\ Len(returned) >= 3
    /\ returned[1].op.op.kind = "Stack"
    /\ returned[2].op.op.kind = "Memory"
    /\ returned[3].ref = OperationRef("Stack", 2)

\* C2: every reference handed out so far still denotes, in the store of its
\* target, the operation whose insertion returned it (same counter, same
\* payload), and each store holds exactly the operations inserted into it:
\* nothing was moved, replaced or removed.
C2_RefsStable ==
    /\ \A i \in 1..Len(returned) :
          LET r == returned[i].ref IN
          /\ r.index \in 1..Len(Store(r.target))
          /\ Store(r.target)[r.index] = returned[i].op
    /\ \A t \in Target : Len(Store(t)) = Cardinality(InsertionsOf(t, Len(returned)))

\* C2 witness: two references into the stack store were handed out, a sorted
\* view that reorders the stack was taken, and an insertion followed.
C2_Witness ==
    /\ Len(stack) >= 2
    /\ sorted(stack) # stack
    /\ Len(memory) >= 1
    /\ ret.call = "insert"
    /\ returned[1].op.op.kind = "Stack"
    /\ returned[Len(returned)].op.op.kind = "Memory"

SortedCalls == {"sorted_memory", "sorted_stack", "sorted_storage"}

TargetOfCall(call) ==
    CASE call = "sorted_memory" -> "Memory"
      [] call = "sorted_stack" -> "Stack"
      [] call = "sorted_storage" -> "Storage"

\* x comes before y in the canonical order: address (for storage: account
\* address, then key) ascending, then global counter ascending.
CanonicallyBefore(x, y) ==
    IF x.op.kind = "Storage"
    THEN \/ x.op.address < y.op.address
         \/ (x.op.address = y.op.address /\ x.op.key < y.op.key)
         \/ (x.op.address = y.op.address /\ x.op.key = y.op.key /\ x.gc < y.gc)
    ELSE \/ x.op.address < y.op.address
         \/ (x.op.address = y.op.address /\ x.gc < y.gc)

\* C3: the sequence sorted_memory / sorted_stack / sorted_storage returns is
\* ordered ascending by address (storage: account address, then key) and,
\* within one address, by global counter.
C3_SortedOrder ==
    ret.call \in SortedCalls =>
        \A i, j \in 1..Len(ret.value) :
            i < j => CanonicallyBefore(ret.value[i], ret.value[j])

\* C3 witness: sorted_stack on three stack operations at two addresses with
\* interleaved counters, stored in an order that is not the sorted one.
C3_Witness ==
    /\ ret.call = "sorted_stack"
    /\ Len(stack) = 3
    /\ stack[1].op.address = 1023 /\ stack[2].op.address = 1022
    /\ stack[3].op.address = 1023
    /\ stack[1].gc < stack[2].gc /\ stack[2].gc < stack[3].gc
    /\ ret.value # stack

\* C4: a sorted_* call leaves the three stores and the references handed out
\* as they were, and what it returns is a permutation of its store.  (A step
\* that ends with a sorted view as the last return value is the sorted_* call
\* itself or the construction of a new operation after it.)
C4_SortedLeavesStores ==
    [][ret'.call \in SortedCalls =>
          /\ memory' = memory /\ stack' = stack /\ storage' = storage
          /\ returned' = returned
          /\ IsPermutation(ret'.value, Store(TargetOfCall(ret'.call)))]_vars

\* C4 witness: sorted_stack returned a vector in another order than the
\* store's insertion order.
C4_Witness ==
    /\ ret.call = "sorted_stack"
    /\ Len(ret.value) >= 2
    /\ ret.value # stack
    /\ returned[1].ref = OperationRef("Stack", 1)
    /\ ret.value[1] # returned[1].op

\* Every operation stamped so far, inserted or not.
Stamped == pending \cup Range(memory) \cup Range(stack) \cup Range(storage)

\* C5: the counters stamped by inc_pre are strictly increasing and never
\* repeat: no two operations carry the same counter, N stamped operations
\* carry N counters, each new stamp is greater than every earlier one, and the
\* counter never goes back.
C5_CountersStrictlyIncrease ==
    /\ [](/\ \A x, y \in Stamped : x.gc = y.gc => x = y
          /\ Cardinality({x.gc : x \in Stamped}) = global_counter - GlobalCounterDefault
          /\ Len(memory) + Len(stack) + Len(storage) + Cardinality(pending)
                 = global_counter - GlobalCounterDefault)
    /\ [][/\ global_counter' >= global_counter
          /\ \A n \in pending' \ pending : \A x \in Stamped : n.gc > x.gc]_vars

\* C5 witness: three operations stamped, one in each store.
C5_Witness ==
    /\ global_counter = 3
    /\ Len(memory) = 1 /\ Len(stack) = 1 /\ Len(storage) = 1

\* C24: insert can be called with any operation and changes exactly one
\* store: the store of the payload's variant is the old one with the
\* operation (its counter and payload as given) appended, and the other two
\* stores are as before; the stores are empty before the first insert and
\* together always hold as many operations as there were inserts.
C24_InsertFrame ==
    /\ [](/\ \A op \in pending : ENABLED Insert(op)
          /\ Len(memory) + Len(stack) + Len(storage) = Len(returned)
          /\ Len(returned) = 0 => (memory = <<>> /\ stack = <<>> /\ storage = <<>>))
    /\ [][Len(returned') = Len(returned) + 1 =>
            LET op == returned'[Len(returned')].op
            IN /\ ret'.call = "insert"
               /\ memory' = IF op.op.kind = "Memory"
                             THEN memory \o <<[gc |-> op.gc, op |-> op.op]>>
                             ELSE memory
               /\ stack' = IF op.op.kind = "Stack"
                            THEN stack \o <<[gc |-> op.gc, op |-> op.op]>>
                            ELSE stack
               /\ storage' = IF op.op.kind = "Storage"
                              THEN storage \o <<[gc |-> op.gc, op |-> op.op]>>
                              ELSE storage]_vars

\* C24 witness: an insert into the memory store made when the stack and the
\* storage stores already hold operations.
C24_Witness ==
    /\ ret.call = "insert"
    /\ ret.value.target = "Memory"
    /\ Len(memory) >= 1 /\ Len(stack) >= 1 /\ Len(storage) >= 1
    /\ returned[Len(returned)].op = memory[Len(memory)]

(***************************************************************************)
(* Field elements and byte arrays                                          *)
(*                                                                         *)
(* Byte arrays and cell arrays are functions over 0..N-1, indexed as in    *)
(* the source.  A field element that holds a boolean, a byte, an opcode or *)
(* a sum or product of such is an integer modulo FieldModulus, a small     *)
(* stand-in for the order of pallas::Base.  The values from_bytes builds   *)
(* from 16 bytes are kept exactly, as base-256 digit strings: with at most *)
(* MAX_BYTES_FIELD bytes they never reach the order of the field.          *)
(***************************************************************************)
FieldModulus == 8191

F == 0..(FieldModulus - 1)

\* F::from_u64.
from_u64(n) == n % FieldModulus

FAdd(x, y) == (x + y) % FieldModulus
FSub(x, y) == (x - y + FieldModulus) % FieldModulus
FMul(x, y) == (x * y) % FieldModulus

Byte == 0..255

\* Word: 32 bytes; its two halves of 16 bytes.
WordBytes == 32
HalfBytes == 16

\* A 256-bit Word (U256) is written most significant byte first, as in a hex
\* literal: a sequence of 32 bytes.  ToLittleEndian::to_le_bytes.
to_le_bytes(word) == [i \in 0..(WordBytes - 1) |-> word[WordBytes - i]]

\* The number of bytes of an array indexed from 0.
NumBytes(bytes) == Cardinality(DOMAIN bytes)

\* bytes[from..to] of a byte array, re-indexed from 0.
Slice(bytes, from, to) == [i \in 0..(to - from - 1) |-> bytes[from + i]]

\* ---- exact naturals: little-endian base-256 digits, no leading zeros ----
BigZero == <<>>
BigOne == <<1>>

\* A fold visits its items in the code's order.  Each fold below is a function
\* of the range from..(to - 1) of the items and of the accumulator: on a range
\* of several items it folds the part visited first and continues from that
\* result with the rest, which is the same applications of the step in the
\* same order.
Mid(from, to) == (from + to) \div 2

BigDigit(x, i) == IF i <= Len(x) THEN x[i] ELSE 0

\* The digits written so far and the carry into the next one.
BigCarried == [digits : Seq(Byte), carry : Nat]

BigWithCarry(acc) ==
    IF acc.carry = 0 THEN acc.digits ELSE Append(acc.digits, acc.carry)

\* School addition, digit by digit from the least significant one.
BigAdd(x, y) ==
    LET fold[from \in Nat, to \in Nat, acc \in BigCarried] ==
            IF to <= from THEN acc
            ELSE IF to = from + 1
                 THEN LET sum == BigDigit(x, from) + BigDigit(y, from) + acc.carry
                      IN [digits |-> Append(acc.digits, sum % 256),
                          carry |-> sum \div 256]
            ELSE fold[Mid(from, to), to, fold[from, Mid(from, to), acc]]
    IN BigWithCarry(fold[1, (IF Len(x) > Len(y) THEN Len(x) ELSE Len(y)) + 1,
                         [digits |-> <<>>, carry |-> 0]])

\* x * k for a small k (a byte, or 256); zero has no digits.
BigMulSmall(x, k) ==
    LET fold[from \in Nat, to \in Nat, acc \in BigCarried] ==
            IF to <= from THEN acc
            ELSE IF to = from + 1
                 THEN LET prod == x[from] * k + acc.carry
                      IN [digits |-> Append(acc.digits, prod % 256),
                          carry |-> prod \div 256]
            ELSE fold[Mid(from, to), to, fold[from, Mid(from, to), acc]]
    IN IF k = 0 THEN BigZero
       ELSE BigWithCarry(fold[1, Len(x) + 1, [digits |-> <<>>, carry |-> 0]])

\* Of two strings of the same length, the order is that of the most
\* significant digit in which they differ.
BigLessFromTop(x, y) ==
    \E i \in 1..Len(x) :
        /\ x[i] < y[i]
        /\ \A j \in (i + 1)..Len(x) : x[j] = y[j]

BigLess(x, y) ==
    \/ Len(x) < Len(y)
    \/ (Len(x) = Len(y) /\ BigLessFromTop(x, y))

(***************************************************************************)
(* util.rs: sum, and, select, from_bytes                                   *)
(***************************************************************************)
\* sum::value(values): the fold of + over the bytes.
sum_value(values) ==
    LET fold[from \in Nat, to \in Nat, acc \in F] ==
            IF to <= from THEN acc
            ELSE IF to = from + 1 THEN FAdd(acc, from_u64(values[from]))
            ELSE fold[Mid(from, to), to, fold[from, Mid(from, to), acc]]
    IN fold[0, NumBytes(values), 0]

\* and::value(inputs) / and::expr(inputs): the fold of * over the inputs.
and_value(inputs) ==
    LET fold[from \in Nat, to \in Nat, acc \in F] ==
            IF to <= from THEN acc
            ELSE IF to = from + 1 THEN FMul(acc, inputs[from])
            ELSE fold[Mid(from, to), to, fold[from, Mid(from, to), acc]]
    IN fold[1, Len(inputs) + 1, 1]

\* select::value / select::expr: selector * when_true + (1 - selector) * when_false.
select_value(selector, when_true, when_false) ==
    FAdd(FMul(selector, when_true), FMul(FSub(1, selector), when_false))

\* from_bytes::value / from_bytes::expr: sum of byte * 256^i; the loop carries
\* (value, multiplier).
from_bytes_value(bytes) ==
    LET fold[from \in Nat, to \in Nat,
             acc \in [value : Seq(Byte), multiplier : Seq(Byte)]] ==
            IF to <= from THEN acc
            ELSE IF to = from + 1
                 THEN [value |-> BigAdd(acc.value,
                                        BigMulSmall(acc.multiplier, bytes[from])),
                       multiplier |-> BigMulSmall(acc.multiplier, 256)]
            ELSE fold[Mid(from, to), to, fold[from, Mid(from, to), acc]]
    IN fold[0, NumBytes(bytes), [value |-> BigZero, multiplier |-> BigOne]].value

(***************************************************************************)
(* math_gadget: IsZero, IsEqual, Comparison (what they assign and return)  *)
(***************************************************************************)
\* IsZeroGadget: 1 iff the input is zero.
IsZero(value) == IF value = 0 THEN 1 ELSE 0

\* IsEqualGadget: IsZero(lhs - rhs).
IsEqual(lhs, rhs) == IsZero(FSub(lhs, rhs))

\* ComparisonGadget<N>: (lt, eq) of two N-byte unsigned values.
Comparison(lhs, rhs) ==
    [lt |-> IF BigLess(lhs, rhs) THEN 1 ELSE 0,
     eq |-> IF lhs = rhs THEN 1 ELSE 0]

\* RangeCheckGadget<N>::assign(value): the value whose N bytes are assigned.
RangeCheck(value) == value

(***************************************************************************)
(* ExecTrace: one step and the rws it reads (bus_mapping_tmp, as the       *)
(* gadgets' tests build it)                                                *)
(***************************************************************************)
OpcodeId_LT == 16
OpcodeId_GT == 17
OpcodeId_EQ == 20
OpcodeId_SIGNEXTEND == 11

\* GasCost::FASTEST and GasCost::FAST, the gas_cost of the tests' steps.
GasCost_FASTEST == 3
GasCost_FAST == 5

\* Rw::Stack { value, .. }.stack_value().
stack_value(rw) == rw.value

\* exec_trace.rws[idx].
RwAt(trace, idx) == trace.rws[idx + 1]

\* Rw::Stack { rw_counter, is_write, stack_pointer, value }.
StackRw(rw_counter, is_write, stack_pointer, value) ==
    [rw_counter |-> rw_counter, is_write |-> is_write,
     stack_pointer |-> stack_pointer, value |-> value]

\* A word with the given 16-byte halves (most significant first).
HalfZero == [i \in 1..HalfBytes |-> 0]
HalfOnes == [i \in 1..HalfBytes |-> 255]
HalfLow1 == [i \in 1..HalfBytes |-> IF i = HalfBytes THEN 1 ELSE 0]
HalfTop1 == [i \in 1..HalfBytes |-> IF i = 1 THEN 1 ELSE 0]
HalfSamples == {HalfZero, HalfOnes, HalfLow1, HalfTop1}

ComparatorWords == {hi \o lo : hi \in HalfSamples, lo \in HalfSamples}

\* The trace of the comparator's test_ok(opcode, a, b, _): a is popped first.
ComparatorTrace(opcode, a, b) ==
    [step |-> [execution_result |-> "LT", opcode |-> opcode,
               rw_indices |-> <<0, 1, 2>>,
               rw_counter |-> 1, program_counter |-> 66, stack_pointer |-> 1022,
               gas_left |-> GasCost_FASTEST, gas_cost |-> GasCost_FASTEST],
     rws |-> <<StackRw(1, FALSE, 1022, a), StackRw(2, FALSE, 1023, b)>>]

ComparatorTraces ==
    {ComparatorTrace(opcode, a, b) :
        opcode \in {OpcodeId_LT, OpcodeId_GT, OpcodeId_EQ},
        a \in ComparatorWords, b \in ComparatorWords}

NoTrace == [step |-> [execution_result |-> "STOP", opcode |-> 0, rw_indices |-> <<>>,
                      rw_counter |-> 0, program_counter |-> 0, stack_pointer |-> 0,
                      gas_left |-> 0, gas_cost |-> 0],
            rws |-> <<>>]

NoWitness == [gadget |-> "none"]

(***************************************************************************)
(* Comparator gadget                                                       *)
(***************************************************************************)
\* ComparatorGadget::assign_exec_step: the cells it assigns.
ComparatorAssignGtFlag(opcode) == IsEqual(from_u64(opcode), from_u64(OpcodeId_GT))

ComparatorIndices(step, is_gt) ==
    IF is_gt = 1
    THEN <<step.rw_indices[2], step.rw_indices[1]>>
    ELSE <<step.rw_indices[1], step.rw_indices[2]>>

ComparatorAssign(trace) ==
    LET step == trace.step
        opcode == step.opcode
        is_eq == IsEqual(from_u64(opcode), from_u64(OpcodeId_EQ))
        is_gt == ComparatorAssignGtFlag(opcode)
        indices == ComparatorIndices(step, is_gt)
        a == to_le_bytes(stack_value(RwAt(trace, indices[1])))
        b == to_le_bytes(stack_value(RwAt(trace, indices[2])))
    IN [gadget |-> "Comparator",
        opcode |-> from_u64(opcode),
        sufficient_gas_left |-> RangeCheck(from_u64(step.gas_left - step.gas_cost)),
        is_eq |-> is_eq,
        is_gt |-> is_gt,
        comparison_lo |-> Comparison(from_bytes_value(Slice(a, 0, HalfBytes)),
                                     from_bytes_value(Slice(b, 0, HalfBytes))),
        comparison_hi |-> Comparison(from_bytes_value(Slice(a, HalfBytes, WordBytes)),
                                     from_bytes_value(Slice(b, HalfBytes, WordBytes))),
        a |-> a,
        b |-> b]

\* ComparatorGadget::configure: the expressions it builds, at a witness w.
ComparatorLt_NoEqHi(w) ==
    select_value(w.comparison_hi.lt, 1, w.comparison_lo.lt)

ComparatorLt(w) ==
    select_value(w.comparison_hi.lt, 1, FMul(w.comparison_hi.eq, w.comparison_lo.lt))

ComparatorEq(w) == FMul(w.comparison_hi.eq, w.comparison_lo.eq)

ComparatorResult(w) == select_value(w.is_eq, ComparatorEq(w), ComparatorLt(w))

\* The two stack_pop lookups: the words the first and the second pop must read.
ComparatorPops(w) ==
    <<IF w.is_gt = 1 THEN w.b ELSE w.a,
      IF w.is_gt = 1 THEN w.a ELSE w.b>>

(***************************************************************************)
(* Signextend gadget                                                       *)
(***************************************************************************)
\* The words the signextend tests run on: the exhaustive test's two values,
\* the simple test's two values, and two values whose bytes all differ.
WordOfLe(le) == [i \in 1..WordBytes |-> le[WordBytes - i]]

SignextendValues ==
    {WordOfLe([i \in 0..(WordBytes - 1) |-> 127]),
     WordOfLe([i \in 0..(WordBytes - 1) |-> 128]),
     WordOfLe([i \in 0..(WordBytes - 1) |->
                  CASE i = 0 -> 1 [] i = 1 -> 2 [] i = 2 -> 240 [] OTHER -> 0]),
     WordOfLe([i \in 0..(WordBytes - 1) |->
                  CASE i = 0 -> 1 [] i = 1 -> 255 [] OTHER -> 0]),
     WordOfLe([i \in 0..(WordBytes - 1) |-> i + 1]),
     WordOfLe([i \in 0..(WordBytes - 1) |-> 255 - i])}

\* Index words: any low byte, with the bytes above it zero or with one of
\* them (byte 1, or the top byte) set.
SignextendIndexHighBytes == {0, 1, WordBytes - 1}

SignextendIndexWord(low, high) ==
    WordOfLe([i \in 0..(WordBytes - 1) |->
                 IF i = 0 THEN low
                 ELSE IF i = high THEN 1 ELSE 0])

SignextendIndices ==
    {SignextendIndexWord(low, high) : low \in Byte, high \in SignextendIndexHighBytes}

\* The trace of the signextend test_ok(index, value, _).
SignextendTrace(index, value) ==
    [step |-> [execution_result |-> "SIGNEXTEND", opcode |-> OpcodeId_SIGNEXTEND,
               rw_indices |-> <<0, 1, 2>>,
               rw_counter |-> 1, program_counter |-> 66, stack_pointer |-> 1022,
               gas_left |-> GasCost_FAST, gas_cost |-> GasCost_FAST],
     rws |-> <<StackRw(1, FALSE, 1022, index), StackRw(2, FALSE, 1023, value)>>]

SignextendTraces ==
    {SignextendTrace(index, value) :
        index \in SignextendIndices, value \in SignextendValues}

\* The number of selectors: one per byte position but the most significant.
NumSelectors == 31

\* The selector cells the loop of assign_exec_step writes: the running sum
\* of `selected`.
SignextendSelectorValues_NoCascade(index, msb_sum_zero) ==
    [i \in 0..(NumSelectors - 1) |->
        and_value(<<IsEqual(from_u64(index[0]), from_u64(i)), msb_sum_zero>>)]

SignextendSelectorValues(index, msb_sum_zero) ==
    LET fold[from \in Nat, to \in Nat,
             acc \in [previous_selector_value : F, selectors : Seq(F)]] ==
            IF to <= from THEN acc
            ELSE IF to = from + 1
                 THEN LET selected ==
                              and_value(<<IsEqual(from_u64(index[0]), from_u64(from)),
                                          msb_sum_zero>>)
                          selector_value == FAdd(selected, acc.previous_selector_value)
                      IN [previous_selector_value |-> selector_value,
                          selectors |-> Append(acc.selectors, selector_value)]
            ELSE fold[Mid(from, to), to, fold[from, Mid(from, to), acc]]
        cells == fold[0, NumSelectors,
                      [previous_selector_value |-> 0, selectors |-> <<>>]].selectors
    IN [i \in 0..(NumSelectors - 1) |-> cells[i + 1]]

\* The sign byte assign_exec_step writes.
SignextendSign_AnyIndex(index, value, msb_sum_zero) ==
    IF index[0] < WordBytes
    THEN value[index[0]] \div 128
    ELSE 0

SignextendSign(index, value, msb_sum_zero) ==
    IF index[0] < NumSelectors /\ msb_sum_zero = 1
    THEN value[index[0]] \div 128
    ELSE 0

\* SignextendGadget::assign_exec_step: the cells it assigns.
SignextendAssign(trace) ==
    LET step == trace.step
        index == to_le_bytes(stack_value(RwAt(trace, step.rw_indices[1])))
        value == to_le_bytes(stack_value(RwAt(trace, step.rw_indices[2])))
        msb_sum_zero == IsZero(sum_value(Slice(index, 1, WordBytes)))
    IN [gadget |-> "Signextend",
        opcode |-> from_u64(step.opcode),
        sufficient_gas_left |-> RangeCheck(from_u64(step.gas_left - step.gas_cost)),
        index |-> index,
        value |-> value,
        is_msb_sum_zero |-> msb_sum_zero,
        is_byte_selected |->
            [i \in 0..(NumSelectors - 1) |-> IsEqual(from_u64(index[0]), from_u64(i))],
        selectors |-> SignextendSelectorValues(index, msb_sum_zero),
        sign_byte |-> from_u64(SignextendSign(index, value, msb_sum_zero) * 255)]

\* SignextendGadget::configure: the expressions it builds, at a witness w.
SignextendIsSelected(w, idx) ==
    and_value(<<w.is_byte_selected[idx], w.is_msb_sum_zero>>)

SignextendSelectedByte_First(w) == w.value[0]

SignextendSelectedByte(w) ==
    LET fold[from \in Nat, to \in Nat, selected_byte \in F] ==
            IF to <= from THEN selected_byte
            ELSE IF to = from + 1
                 THEN FAdd(selected_byte,
                           FMul(SignextendIsSelected(w, from), w.value[from]))
            ELSE fold[Mid(from, to), to, fold[from, Mid(from, to), selected_byte]]
    IN fold[0, NumSelectors, 0]

\* The require_equal of each selector and the query_bool of each selector cell.
SignextendSelectorConstraints(w) ==
    \A idx \in 0..(NumSelectors - 1) :
        /\ FAdd(SignextendIsSelected(w, idx),
                IF idx > 0 THEN w.selectors[idx - 1] ELSE 0) = w.selectors[idx]
        /\ FMul(w.selectors[idx], FSub(1, w.selectors[idx])) = 0

\* The bytes whose random linear combination is the pushed result.
SignextendResultByte_SamePosition(w, idx) ==
    IF idx = 0 THEN w.value[idx]
    ELSE IF idx < NumSelectors
         THEN select_value(w.selectors[idx], w.sign_byte, w.value[idx])
         ELSE select_value(w.selectors[idx - 1], w.sign_byte, w.value[idx])

SignextendResultByte(w, idx) ==
    IF idx = 0 THEN w.value[idx]
    ELSE select_value(w.selectors[idx - 1], w.sign_byte, w.value[idx])

SignextendResult(w) == [idx \in 0..(WordBytes - 1) |-> SignextendResultByte(w, idx)]

\* The two stack_pop lookups: the index is popped first, the value second.
SignextendPops_ValueFirst(w) == <<w.value, w.index>>

SignextendPops(w) == <<w.index, w.value>>

\* What value | !mask and value & mask do to the byte at index, the only byte
\* that mask = 2^(8 index + 7) - 1 splits: set, or clear, its top bit.
ByteSetTopBit(b) == IF b < 128 THEN b + 128 ELSE b
ByteClearTopBit(b) == b % 128

\* The reference function of signextend_gadget_rand, byte by byte: with
\* mask = 2^(8 index + 7) - 1, value | !mask when the byte at index has its
\* top bit set and value & mask otherwise; the value itself when index >= 32.
SignextendReference(index, value) ==
    LET index_le == to_le_bytes(index)
        value_le == to_le_bytes(value)
        index_below_32 == index_le[0] < 32
                          /\ \A i \in 1..(WordBytes - 1) : index_le[i] = 0
        pivot == index_le[0]
        negative == value_le[pivot] \div 128 = 1
    IN IF index_below_32
       THEN [i \in 0..(WordBytes - 1) |->
                IF i < pivot THEN value_le[i]
                ELSE IF i = pivot
                     THEN IF negative THEN ByteSetTopBit(value_le[i])
                          ELSE ByteClearTopBit(value_le[i])
                     ELSE IF negative THEN 255 ELSE 0]
       ELSE value_le

GadgetInit ==
    /\ exec_trace \in ComparatorTraces \cup SignextendTraces
    /\ witness = NoWitness
    /\ gadget = "none"

\* ComparatorGadget::assign_exec_step on the step of the trace.
AssignComparator ==
    /\ gadget = "none"
    /\ exec_trace.step.execution_result = "LT"
    /\ witness' = ComparatorAssign(exec_trace)
    /\ gadget' = "Comparator"
    /\ UNCHANGED exec_trace
    /\ UNCHANGED gadget_rest

\* SignextendGadget::assign_exec_step on the step of the trace.
AssignSignextend ==
    /\ gadget = "none"
    /\ exec_trace.step.execution_result = "SIGNEXTEND"
    /\ witness' = SignextendAssign(exec_trace)
    /\ gadget' = "Signextend"
    /\ UNCHANGED exec_trace
    /\ UNCHANGED gadget_rest

GadgetNext ==
    \/ AssignComparator
    \/ AssignSignextend

(***************************************************************************)
(* Properties of the gadgets                                               *)
(***************************************************************************)
\* a < b as 256-bit unsigned words (most significant byte first).
WordLess(a, b) ==
    \E k \in 1..WordBytes :
        /\ a[k] < b[k]
        /\ \A j \in 1..(k - 1) : a[j] = b[j]

Bool01(p) == IF p THEN 1 ELSE 0

\* C6: with a the first and b the second value popped, the comparator's
\* pushed result is 1 iff a < b (LT), a > b (GT), a = b (EQ), else 0, and the
\* words its two pops read are a and b in that order.
C6_ComparatorResult ==
    gadget = "Comparator" =>
        LET a == exec_trace.rws[1].value
            b == exec_trace.rws[2].value
            opcode == exec_trace.step.opcode
        IN /\ ComparatorPops(witness) = <<to_le_bytes(a), to_le_bytes(b)>>
           /\ opcode = OpcodeId_LT => ComparatorResult(witness) = Bool01(WordLess(a, b))
           /\ opcode = OpcodeId_GT => ComparatorResult(witness) = Bool01(WordLess(b, a))
           /\ opcode = OpcodeId_EQ => ComparatorResult(witness) = Bool01(a = b)

\* C6 witness: GT of two words with equal high halves, decided by the low
\* halves, the result being 1.
C6_Witness ==
    /\ gadget = "Comparator"
    /\ exec_trace.step.opcode = OpcodeId_GT
    /\ exec_trace.rws[1].value = HalfTop1 \o HalfOnes
    /\ exec_trace.rws[2].value = HalfTop1 \o HalfLow1
    /\ witness.comparison_hi.eq = 1
    /\ ComparatorResult(witness) = 1

\* The index word of the trace names a pivot in 0..30: its bytes above the
\* least significant one are zero and that byte is at most 30.
IndexLe == to_le_bytes(exec_trace.rws[1].value)
ValueLe == to_le_bytes(exec_trace.rws[2].value)
IsPivot ==
    /\ \A i \in 1..(WordBytes - 1) : IndexLe[i] = 0
    /\ IndexLe[0] <= 30

\* C7: for a pivot i in 0..30 the pushed result keeps bytes 0..i of the value
\* and has every byte above i equal to 0xFF when bit 7 of byte i is set and to
\* 0 otherwise; this is the reference function of the test.
C7_SignextendPivot ==
    (gadget = "Signextend" /\ IsPivot) =>
        /\ \A j \in 0..(WordBytes - 1) :
              SignextendResult(witness)[j] =
                  IF j <= IndexLe[0] THEN ValueLe[j]
                  ELSE IF ValueLe[IndexLe[0]] >= 128 THEN 255 ELSE 0
        /\ SignextendResult(witness) =
              SignextendReference(exec_trace.rws[1].value, exec_trace.rws[2].value)

\* C7 witness: pivot 2 on 0xF00201, the bytes above byte 2 becoming 0xFF.
C7_Witness ==
    /\ gadget = "Signextend"
    /\ IsPivot
    /\ IndexLe[0] = 2
    /\ ValueLe[0] = 1 /\ ValueLe[1] = 2 /\ ValueLe[2] = 240 /\ ValueLe[3] = 0
    /\ SignextendResult(witness)[3] = 255
    /\ SignextendResult(witness)[31] = 255
    /\ SignextendResult(witness)[2] = 240

\* C8: when the index names no pivot in 0..30 (a byte above the least
\* significant one is non-zero, or the low byte is 31 or more), no selector
\* and no is-selected flag is set, the sign byte is 0 and the pushed result is
\* the value, byte for byte.
C8_SignextendNoOp ==
    (gadget = "Signextend" /\ ~IsPivot) =>
        /\ \A i \in 0..(NumSelectors - 1) :
              /\ witness.selectors[i] = 0
              /\ SignextendIsSelected(witness, i) = 0
        /\ witness.sign_byte = 0
        /\ SignextendResult(witness) = ValueLe

\* C8 witness: index 258 (low byte 2, byte 1 set) on a value whose byte 2 has
\* its top bit set.
C8_Witness ==
    /\ gadget = "Signextend"
    /\ IndexLe[0] = 2 /\ IndexLe[1] = 1
    /\ ValueLe[2] = 240
    /\ SignextendResult(witness) = ValueLe

\* C20: in the signextend gadget at most one of the 31 is-selected flags is
\* 1; each selector cell is the is-selected flag of its position plus the
\* selector before it (0 before the first) and is 0 or 1; the selectors never
\* decrease along the positions; and selector i is 1 exactly when the bytes
\* of the index above the lowest are all zero and its lowest byte is at most
\* i.
C20_SelectorCascade ==
    gadget = "Signextend" =>
        LET positions == 0..(NumSelectors - 1)
            is_selected(i) == SignextendIsSelected(witness, i)
        IN /\ \A i \in positions : is_selected(i) \in {0, 1}
           /\ Cardinality({i \in positions : is_selected(i) = 1}) <= 1
           /\ \A i \in positions :
                 /\ witness.selectors[i]
                        = FAdd(is_selected(i),
                               IF i > 0 THEN witness.selectors[i - 1] ELSE 0)
                 /\ witness.selectors[i] \in {0, 1}
                 /\ witness.selectors[i] = 1
                        <=> /\ \A k \in 1..(WordBytes - 1) : IndexLe[k] = 0
                            /\ IndexLe[0] <= i
           /\ \A i, j \in positions :
                 i <= j => witness.selectors[i] <= witness.selectors[j]

\* C20 witness: index 5, so position 5 alone is selected and the selectors
\* are 0 below position 5 and 1 from it on.
C20_Witness ==
    /\ gadget = "Signextend"
    /\ IndexLe[0] = 5
    /\ \A k \in 1..(WordBytes - 1) : IndexLe[k] = 0
    /\ SignextendIsSelected(witness, 5) = 1
    /\ witness.selectors[4] = 0
    /\ witness.selectors[5] = 1
    /\ witness.selectors[NumSelectors - 1] = 1

(***************************************************************************)
(* Random linear combination (util.rs)                                     *)
(***************************************************************************)
\* Bounds of the byte arrays combined: every array of at most MaxRlcLen
\* sample bytes, and the 32-byte words of the signextend tests.
MaxRlcLen == 4
RlcByteSamples == {0, 1, 255}
RlcRandomnessSamples == {0, 1, 2, 256, FieldModulus - 1}

RlcArrays ==
    UNION {[0..(n - 1) -> RlcByteSamples] : n \in 0..MaxRlcLen}
    \cup {to_le_bytes(w) : w \in SignextendValues}

\* Expression<F>: a constant, the query of the i-th cell, the randomness, a
\* sum or a product.  The tree is written in postfix order, each operand
\* before its operator: a sequence of nodes that is one tree exactly.
ExpressionNode ==
    ({"Constant"} \X Nat) \cup ({"Advice"} \X Nat)
        \cup {<<"Randomness">>, <<"Sum">>, <<"Product">>}

Constant(c) == << <<"Constant", c>> >>
CellQuery(i) == << <<"Advice", i>> >>
RandomnessExpr == << <<"Randomness">> >>
Sum(a, b) == a \o b \o << <<"Sum">> >>
Product(a, b) == a \o b \o << <<"Product">> >>

\* The stack of operand values after one more node.
EvaluateNode(node, operands, cells, randomness) ==
    LET n == Len(operands)
    IN CASE node[1] = "Constant" -> Append(operands, from_u64(node[2]))
         [] node[1] = "Advice" -> Append(operands, from_u64(cells[node[2]]))
         [] node[1] = "Randomness" -> Append(operands, randomness)
         [] node[1] = "Sum" ->
                Append(SubSeq(operands, 1, n - 2), FAdd(operands[n - 1], operands[n]))
         [] node[1] = "Product" ->
                Append(SubSeq(operands, 1, n - 2), FMul(operands[n - 1], operands[n]))

\* The value of an expression with cell i bound to cells[i].
Evaluate(e, cells, randomness) ==
    LET run[from \in Nat, to \in Nat, operands \in Seq(F)] ==
            IF to <= from THEN operands
            ELSE IF to = from + 1
                 THEN EvaluateNode(e[from], operands, cells, randomness)
            ELSE run[Mid(from, to), to, run[from, Mid(from, to), operands]]
    IN run[1, Len(e) + 1, <<>>][1]

\* The same fold over the bytes in their own order, without rev().
random_linear_combine_NotReversed(bytes, randomness) ==
    LET fold[from \in Nat, to \in Nat, acc \in F] ==
            IF to <= from THEN acc
            ELSE IF to = from + 1
                 THEN FAdd(FMul(acc, randomness), from_u64(bytes[from]))
            ELSE fold[Mid(from, to), to, fold[from, Mid(from, to), acc]]
    IN fold[0, NumBytes(bytes), 0]

\* RandomLinearCombination::random_linear_combine:
\* bytes.iter().rev().fold(F::zero(), |acc, byte| acc * randomness + byte).
\* rev() visits the upper part of a range first.
random_linear_combine(bytes, randomness) ==
    LET fold[from \in Nat, to \in Nat, acc \in F] ==
            IF to <= from THEN acc
            ELSE IF to = from + 1
                 THEN FAdd(FMul(acc, randomness), from_u64(bytes[from]))
            ELSE fold[from, Mid(from, to), fold[Mid(from, to), to, acc]]
    IN fold[0, NumBytes(bytes), 0]

\* RandomLinearCombination::random_linear_combine_expr:
\* bytes.iter().rev().fold(0.expr(), |acc, byte| acc * randomness + byte).
random_linear_combine_expr(bytes, randomness) ==
    LET fold[from \in Nat, to \in Nat, acc \in Seq(ExpressionNode)] ==
            IF to <= from THEN acc
            ELSE IF to = from + 1
                 THEN Sum(Product(acc, randomness), bytes[from])
            ELSE fold[from, Mid(from, to), fold[Mid(from, to), to, acc]]
    IN fold[0, NumBytes(bytes), Constant(0)]

\* RandomLinearCombination::new: the expression over the word's own cells.
RlcCells(n) == [i \in 0..(n - 1) |-> CellQuery(i)]

RlcInit ==
    /\ rlc_bytes \in RlcArrays
    /\ rlc_randomness \in RlcRandomnessSamples
    /\ rlc_value = 0
    /\ rlc_expr = Constant(0)
    /\ rlc_done = {}

\* The witness side: random_linear_combine(bytes, randomness).
Combine ==
    /\ "value" \notin rlc_done
    /\ rlc_value' = random_linear_combine(rlc_bytes, rlc_randomness)
    /\ rlc_done' = rlc_done \cup {"value"}
    /\ UNCHANGED <<rlc_bytes, rlc_randomness, rlc_expr>>
    /\ UNCHANGED rlc_rest

\* The constraint side: random_linear_combine_expr(cells, randomness).
CombineExpr ==
    /\ "expr" \notin rlc_done
    /\ rlc_expr' = random_linear_combine_expr(RlcCells(NumBytes(rlc_bytes)), RandomnessExpr)
    /\ rlc_done' = rlc_done \cup {"expr"}
    /\ UNCHANGED <<rlc_bytes, rlc_randomness, rlc_value>>
    /\ UNCHANGED rlc_rest

RlcNext ==
    \/ Combine
    \/ CombineExpr

\* The sum over i of bytes[i] * R^i, byte 0 first, carrying weight = R^i.
PowerSum(bytes, randomness) ==
    LET fold[from \in Nat, to \in Nat, acc \in [weight : F, total : F]] ==
            IF to <= from THEN acc
            ELSE IF to = from + 1
                 THEN [weight |-> FMul(acc.weight, randomness),
                       total |-> FAdd(acc.total,
                                      FMul(from_u64(bytes[from]), acc.weight))]
            ELSE fold[Mid(from, to), to, fold[from, Mid(from, to), acc]]
    IN fold[0, NumBytes(bytes), [weight |-> 1, total |-> 0]].total

\* C9: the expression built by random_linear_combine_expr, evaluated with each
\* cell bound to its byte, is the field element random_linear_combine returns,
\* and both are the sum of B[i] * R^i (byte 0 has weight 1).
C9_RlcIdentity ==
    rlc_done = {"value", "expr"} =>
        /\ Evaluate(rlc_expr, rlc_bytes, rlc_randomness) = rlc_value
        /\ rlc_value = PowerSum(rlc_bytes, rlc_randomness)

\* C9 witness: both forms computed for an array whose reversal combines to
\* another value.
C9_Witness ==
    /\ rlc_done = {"value", "expr"}
    /\ NumBytes(rlc_bytes) = 3
    /\ rlc_bytes[0] = 1 /\ rlc_bytes[1] = 0 /\ rlc_bytes[2] = 255
    /\ rlc_randomness = 2
    /\ rlc_value = 1021

(***************************************************************************)
(* State transitions: the steps of a trace                                 *)
(***************************************************************************)
\* Bounds of the traces.
MaxSteps == 4        \* steps of one trace
MaxGas == 12         \* gas_left of the first step

ExecutionResults == {"LT", "SIGNEXTEND", "JUMPDEST", "STOP"}

\* GasCost::ONE, the gas_cost of the jumpdest test's step.
GasCost_ONE == 1

\* The constraint builder's offsets: opcode_lookup advances the program
\* counter, every stack lookup the rw counter; a pop raises the stack pointer
\* and a push lowers it.
NewBuilder == [rw_counter_offset |-> 0, program_counter_offset |-> 0,
               stack_pointer_offset |-> 0]

BuilderCall(cb, call) ==
    CASE call = "opcode_lookup" ->
            [cb EXCEPT !.program_counter_offset = @ + 1]
      [] call = "stack_pop" ->
            [cb EXCEPT !.rw_counter_offset = @ + 1, !.stack_pointer_offset = @ + 1]
      [] call = "stack_push" ->
            [cb EXCEPT !.rw_counter_offset = @ + 1, !.stack_pointer_offset = @ - 1]

RECURSIVE BuilderAfter(_, _)
BuilderAfter(cb, calls) ==
    IF calls = <<>> THEN cb
    ELSE BuilderAfter(BuilderCall(cb, Head(calls)), Tail(calls))

\* Transition::Delta(x) and the default of StateTransition, Transition::Same.
Delta(x) == x
Same == 0

\* ComparatorGadget::configure: its lookups, in order, and the transition.
ComparatorBuilderCalls_OnePop == <<"opcode_lookup", "stack_pop", "stack_push">>

ComparatorBuilderCalls == <<"opcode_lookup", "stack_pop", "stack_pop", "stack_push">>

ComparatorTransition ==
    LET cb == BuilderAfter(NewBuilder, ComparatorBuilderCalls)
    IN [rw_counter |-> Delta(cb.rw_counter_offset),
        program_counter |-> Delta(cb.program_counter_offset),
        stack_pointer |-> Delta(cb.stack_pointer_offset),
        gas_left |-> Delta(-GasCost_FASTEST)]

\* SignextendGadget::configure: its lookups, in order, and the transition.
SignextendBuilderCalls == <<"opcode_lookup", "stack_pop", "stack_pop", "stack_push">>

SignextendTransition ==
    LET cb == BuilderAfter(NewBuilder, SignextendBuilderCalls)
    IN [rw_counter |-> Delta(cb.rw_counter_offset),
        program_counter |-> Delta(cb.program_counter_offset),
        stack_pointer |-> Delta(cb.stack_pointer_offset),
        gas_left |-> Delta(-GasCost_FAST)]

\* JumpdestGadget::configure: its lookup and the transition.
JumpdestBuilderCalls == <<"opcode_lookup">>

JumpdestTransition_GasSame ==
    LET cb == BuilderAfter(NewBuilder, JumpdestBuilderCalls)
    IN [rw_counter |-> Same,
        program_counter |-> Delta(cb.program_counter_offset),
        stack_pointer |-> Same,
        gas_left |-> Same]

JumpdestTransition ==
    LET cb == BuilderAfter(NewBuilder, JumpdestBuilderCalls)
    IN [rw_counter |-> Same,
        program_counter |-> Delta(cb.program_counter_offset),
        stack_pointer |-> Same,
        gas_left |-> Delta(-GasCost_ONE)]

\* The step that require_state_transition admits after `step`.
NextStep_GasKept(step, transition, execution_result) ==
    [execution_result |-> execution_result,
     rw_counter |-> step.rw_counter + transition.rw_counter,
     program_counter |-> step.program_counter + transition.program_counter,
     stack_pointer |-> step.stack_pointer + transition.stack_pointer,
     gas_left |-> step.gas_left]

NextStep(step, transition, execution_result) ==
    [execution_result |-> execution_result,
     rw_counter |-> step.rw_counter + transition.rw_counter,
     program_counter |-> step.program_counter + transition.program_counter,
     stack_pointer |-> step.stack_pointer + transition.stack_pointer,
     gas_left |-> step.gas_left + transition.gas_left]

LastStep == steps[Len(steps)]

\* The first step of the tests' traces, with any gadget and gas.
TraceInit ==
    \E execution_result \in ExecutionResults, gas_left \in 0..MaxGas,
       stack_pointer \in {1021, 1022, 1024}, program_counter \in {0, 66} :
        steps = <<[execution_result |-> execution_result,
                   rw_counter |-> 1,
                   program_counter |-> program_counter,
                   stack_pointer |-> stack_pointer,
                   gas_left |-> gas_left]>>

\* A step of the comparator: two values to pop, and gas for it
\* (require_sufficient_gas_left).
StepComparator(next_result) ==
    /\ Len(steps) < MaxSteps
    /\ LastStep.execution_result = "LT"
    /\ LastStep.stack_pointer + 1 < 1024
    /\ LastStep.gas_left >= GasCost_FASTEST
    /\ steps' = Append(steps, NextStep(LastStep, ComparatorTransition, next_result))
    /\ UNCHANGED trace_rest

StepSignextend(next_result) ==
    /\ Len(steps) < MaxSteps
    /\ LastStep.execution_result = "SIGNEXTEND"
    /\ LastStep.stack_pointer + 1 < 1024
    /\ LastStep.gas_left >= GasCost_FAST
    /\ steps' = Append(steps, NextStep(LastStep, SignextendTransition, next_result))
    /\ UNCHANGED trace_rest

StepJumpdest(next_result) ==
    /\ Len(steps) < MaxSteps
    /\ LastStep.execution_result = "JUMPDEST"
    /\ LastStep.gas_left >= GasCost_ONE
    /\ steps' = Append(steps, NextStep(LastStep, JumpdestTransition, next_result))
    /\ UNCHANGED trace_rest

TraceNext ==
    \/ \E r \in ExecutionResults : StepComparator(r)
    \/ \E r \in ExecutionResults : StepSignextend(r)
    \/ \E r \in ExecutionResults : StepJumpdest(r)

\* The positions of the trace at which a step of the given gadget is
\* followed by its successor.
StepsOf(execution_result) ==
    {i \in 1..(Len(steps) - 1) : steps[i].execution_result = execution_result}

\* C10 (as amended): the step after a comparator step has rw counter +3,
\* program counter +1, stack pointer +1, and gas left lower by GasCost::FASTEST
\* (3), which is not the GasCost::FAST (5) that the signextend gadget charges.
C10_ComparatorTransition ==
    \A i \in StepsOf("LT") :
        /\ steps[i + 1].rw_counter = steps[i].rw_counter + 3
        /\ steps[i + 1].program_counter = steps[i].program_counter + 1
        /\ steps[i + 1].stack_pointer = steps[i].stack_pointer + 1
        /\ steps[i + 1].gas_left = steps[i].gas_left - GasCost_FASTEST
        /\ steps[i + 1].gas_left # steps[i].gas_left + SignextendTransition.gas_left

\* C10 as stated: the comparator's step has rw counter +3, program counter +1,
\* stack pointer +1, and takes the gas the signextend gadget charges.
C10_Original ==
    \A i \in StepsOf("LT") :
        /\ steps[i + 1].rw_counter = steps[i].rw_counter + 3
        /\ steps[i + 1].program_counter = steps[i].program_counter + 1
        /\ steps[i + 1].stack_pointer = steps[i].stack_pointer + 1
        /\ steps[i + 1].gas_left = steps[i].gas_left + SignextendTransition.gas_left

\* C10 witness: the comparator test's steps: rw counter 1, program counter
\* 66, stack pointer 1022 and gas 3, then 4, 67, 1023 and 0.
C10_Witness ==
    /\ Len(steps) >= 2
    /\ steps[1].execution_result = "LT"
    /\ steps[1].stack_pointer = 1022 /\ steps[1].gas_left = 3
    /\ steps[2].execution_result = "STOP"
    /\ steps[2].rw_counter = 4 /\ steps[2].program_counter = 67
    /\ steps[2].stack_pointer = 1023 /\ steps[2].gas_left = 0

\* The transition the gadget of a step declares.
TransitionOf(execution_result) ==
    CASE execution_result = "LT" -> ComparatorTransition
      [] execution_result = "SIGNEXTEND" -> SignextendTransition
      [] execution_result = "JUMPDEST" -> JumpdestTransition

TrackedFields == {"rw_counter", "program_counter", "stack_pointer", "gas_left"}

\* The sum of the deltas declared for a field by the gadgets of the steps
\* that have a successor.
DeclaredDeltaSum(field) ==
    LET sum[i \in 0..(Len(steps) - 1)] ==
            IF i = 0 THEN 0
            ELSE sum[i - 1] + TransitionOf(steps[i].execution_result)[field]
    IN sum[Len(steps) - 1]

\* C18: in a trace that ends in a STOP step, for each of rw counter, program
\* counter, stack pointer and gas left the sum of the deltas declared by the
\* gadgets of the steps is the field at the final step minus the field at
\* the first; and every step after the first has, in each field, the value
\* of its predecessor plus the delta of the predecessor's gadget.
C18_DeltasSumToDifference ==
    /\ LastStep.execution_result = "STOP" =>
           \A field \in TrackedFields :
               DeclaredDeltaSum(field) = LastStep[field] - steps[1][field]
    /\ \A i \in 1..(Len(steps) - 1) : \A field \in TrackedFields :
           steps[i + 1][field]
               = steps[i][field] + TransitionOf(steps[i].execution_result)[field]

\* C18 witness: a jumpdest, a comparator and a signextend step, then STOP.
C18_Witness ==
    /\ Len(steps) = 4
    /\ steps[1].execution_result = "JUMPDEST"
    /\ steps[2].execution_result = "LT"
    /\ steps[3].execution_result = "SIGNEXTEND"
    /\ steps[4].execution_result = "STOP"
    /\ steps[4].gas_left = steps[1].gas_left - 9
    /\ steps[4].rw_counter = 7
    /\ steps[4].stack_pointer = steps[1].stack_pointer + 2
    /\ steps[4].program_counter = steps[1].program_counter + 3

\* The jumpdest test's trace: a step with no rw_indices, and no rws.
OpcodeId_JUMPDEST == 91

JumpdestTrace(gas_left) ==
    [step |-> [execution_result |-> "JUMPDEST", opcode |-> OpcodeId_JUMPDEST,
               rw_indices |-> <<>>,
               rw_counter |-> 1, program_counter |-> 0, stack_pointer |-> 1024,
               gas_left |-> gas_left, gas_cost |-> GasCost_ONE],
     rws |-> <<>>]

\* JumpdestGadget::assign_exec_step: the cells it assigns; it takes the step's
\* opcode, gas_left and gas_cost and nothing else of the trace.
JumpdestAssign(trace) ==
    LET step == trace.step
    IN [gadget |-> "Jumpdest",
        opcode |-> from_u64(step.opcode),
        sufficient_gas_left |-> RangeCheck(from_u64(step.gas_left - step.gas_cost))]

\* C11: the step after a jumpdest step has program counter +1 and gas left
\* -1 with the rw counter and the stack pointer unchanged, and the gadget's
\* assignment of that step succeeds on a trace whose rw_indices and rws are
\* both empty: it reads no entry of the read-write trace.
C11_JumpdestTransition ==
    \A i \in StepsOf("JUMPDEST") :
        /\ steps[i + 1].rw_counter = steps[i].rw_counter
        /\ steps[i + 1].program_counter = steps[i].program_counter + 1
        /\ steps[i + 1].stack_pointer = steps[i].stack_pointer
        /\ steps[i + 1].gas_left = steps[i].gas_left - 1
        /\ LET trace == JumpdestTrace(steps[i].gas_left)
           IN /\ trace.step.rw_indices = <<>> /\ trace.rws = <<>>
              /\ JumpdestAssign(trace) =
                    [gadget |-> "Jumpdest", opcode |-> OpcodeId_JUMPDEST,
                     sufficient_gas_left |-> steps[i + 1].gas_left]

\* C11 witness: the jumpdest test's steps: rw counter 1, program counter 0,
\* stack pointer 1024 and gas 3, then 1, 1, 1024 and 2.
C11_Witness ==
    /\ Len(steps) >= 2
    /\ steps[1].execution_result = "JUMPDEST"
    /\ steps[1].program_counter = 0
    /\ steps[1].stack_pointer = 1024 /\ steps[1].gas_left = 3
    /\ steps[2].execution_result = "STOP"
    /\ steps[2].rw_counter = 1 /\ steps[2].program_counter = 1
    /\ steps[2].stack_pointer = 1024 /\ steps[2].gas_left = 2

\* The stack lookups a gadget's builder calls declare for a step: each at
\* the rw counter and stack pointer the builder's offsets give when the call
\* is made (a pop reads at the offset and then raises it, a push lowers it
\* and then writes there), with the values in the order of the calls.
RECURSIVE StackLookups(_, _, _, _)
StackLookups(cb, calls, values, step) ==
    IF calls = <<>> THEN <<>>
    ELSE LET call == Head(calls)
             after == BuilderCall(cb, call)
         IN IF call = "opcode_lookup"
            THEN StackLookups(after, Tail(calls), values, step)
            ELSE <<StackRw(step.rw_counter + cb.rw_counter_offset,
                           call = "stack_push",
                           step.stack_pointer
                               + (IF call = "stack_push"
                                  THEN after.stack_pointer_offset
                                  ELSE cb.stack_pointer_offset),
                           Head(values))>>
                 \o StackLookups(after, Tail(calls), Tail(values), step)

\* SignextendGadget::configure: stack_pop(index), stack_pop(value),
\* stack_push(result), at a witness w.
SignextendLookups(w, step) ==
    StackLookups(NewBuilder, SignextendBuilderCalls,
                 SignextendPops(w) \o <<SignextendResult(w)>>, step)

\* C12: the signextend gadget declares three stack lookups, the pop of the
\* index first, the pop of the value second and one push; the two pops are
\* the entries rw_indices[0] and rw_indices[1] of the trace, from which the
\* assignment takes the index and the value; and the declared transition is
\* rw counter +3, program counter +1, stack pointer +1, gas left -FAST.
C12_SignextendPopOrder ==
    gadget = "Signextend" =>
        LET step == exec_trace.step
            lookups == SignextendLookups(witness, step)
            first == RwAt(exec_trace, step.rw_indices[1])
            second == RwAt(exec_trace, step.rw_indices[2])
            next == NextStep(step, SignextendTransition, "STOP")
        IN /\ Len(lookups) = 3
           /\ ~lookups[1].is_write /\ ~lookups[2].is_write /\ lookups[3].is_write
           /\ lookups[1] = [first EXCEPT !.value = to_le_bytes(@)]
           /\ lookups[2] = [second EXCEPT !.value = to_le_bytes(@)]
           /\ witness.index = to_le_bytes(stack_value(first))
           /\ witness.value = to_le_bytes(stack_value(second))
           /\ lookups[3].rw_counter = step.rw_counter + 2
           /\ lookups[3].stack_pointer = step.stack_pointer + 1
           /\ next.rw_counter = step.rw_counter + 3
           /\ next.program_counter = step.program_counter + 1
           /\ next.stack_pointer = step.stack_pointer + 1
           /\ next.gas_left = step.gas_left - GasCost_FAST

\* C12 witness: a signextend step assigned whose index and value differ, so
\* that the order of the two pops shows.
C12_Witness ==
    /\ gadget = "Signextend"
    /\ witness.index # witness.value
    /\ witness.index[0] = 1
    /\ witness.value[0] = 255

(***************************************************************************)
(* table.rs: the fixed table                                               *)
(***************************************************************************)
\* enum FixedTableTag { Range16 = 1, Range17, ... }: the discriminants.
FixedTableTag_FromZero ==
    [Range16 |-> 0, Range17 |-> 1, Range32 |-> 2, Range256 |-> 3,
     Range512 |-> 4, SignByte |-> 5,
     BitwiseAnd |-> 6, BitwiseOr |-> 7, BitwiseXor |-> 8]

FixedTableTag ==
    [Range16 |-> 1, Range17 |-> 2, Range32 |-> 3, Range256 |-> 4,
     Range512 |-> 5, SignByte |-> 6,
     BitwiseAnd |-> 7, BitwiseOr |-> 8, BitwiseXor |-> 9]

FixedTableVariants == DOMAIN FixedTableTag

\* lhs & rhs, lhs | rhs and lhs ^ rhs of two bytes, bit by bit.
Bit(x, i) == (x \div (2 ^ i)) % 2

BitOp(op, a, b) ==
    CASE op = "&" -> a * b
      [] op = "|" -> a + b - a * b
      [] op = "^" -> (a + b) % 2

BitwiseByte(op, lhs, rhs) ==
    LET bit(i) == BitOp(op, Bit(lhs, i), Bit(rhs, i)) * (2 ^ i)
    IN bit(0) + bit(1) + bit(2) + bit(3) + bit(4) + bit(5) + bit(6) + bit(7)

\* (0..n).map(|value| vec![tag, value, 0, 0]).
RangeRows_Inclusive(tag, n) ==
    [k \in 1..(n + 1) |-> <<tag, from_u64(k - 1), from_u64(0), from_u64(0)>>]

RangeRows(tag, n) ==
    [k \in 1..n |-> <<tag, from_u64(k - 1), from_u64(0), from_u64(0)>>]

\* (0..256).flat_map(|lhs| (0..256).map(|rhs| vec![tag, lhs, rhs, op(lhs, rhs)])).
BitwiseRows(tag, op) ==
    [k \in 1..(256 * 256) |->
        LET lhs == (k - 1) \div 256
            rhs == (k - 1) % 256
        IN <<tag, from_u64(lhs), from_u64(rhs),
             from_u64(BitwiseByte(op, lhs, rhs))>>]

\* FixedTableTag::build.
build_SignByteAsBit(variant) ==
    LET tag == from_u64(FixedTableTag[variant])
    IN CASE variant = "Range16" -> RangeRows(tag, 16)
         [] variant = "Range17" -> RangeRows(tag, 17)
         [] variant = "Range32" -> RangeRows(tag, 32)
         [] variant = "Range256" -> RangeRows(tag, 256)
         [] variant = "Range512" -> RangeRows(tag, 512)
         [] variant = "SignByte" ->
                [k \in 1..256 |->
                    <<tag, from_u64(k - 1),
                      from_u64((k - 1) \div 128), from_u64(0)>>]
         [] variant = "BitwiseAnd" -> BitwiseRows(tag, "&")
         [] variant = "BitwiseOr" -> BitwiseRows(tag, "|")
         [] variant = "BitwiseXor" -> BitwiseRows(tag, "^")

build(variant) ==
    LET tag == from_u64(FixedTableTag[variant])
    IN CASE variant = "Range16" -> RangeRows(tag, 16)
         [] variant = "Range17" -> RangeRows(tag, 17)
         [] variant = "Range32" -> RangeRows(tag, 32)
         [] variant = "Range256" -> RangeRows(tag, 256)
         [] variant = "Range512" -> RangeRows(tag, 512)
         [] variant = "SignByte" ->
                [k \in 1..256 |->
                    <<tag, from_u64(k - 1),
                      from_u64(((k - 1) \div 128) * 255), from_u64(0)>>]
         [] variant = "BitwiseAnd" -> BitwiseRows(tag, "&")
         [] variant = "BitwiseOr" -> BitwiseRows(tag, "|")
         [] variant = "BitwiseXor" -> BitwiseRows(tag, "^")

ZeroRow == <<from_u64(0), from_u64(0), from_u64(0), from_u64(0)>>

\* FixedTableTag::build_all: the zero row, then the rows of the variants it
\* chains; the chains of the three bitwise variants are commented out.
BuiltVariants ==
    <<"Range16", "Range17", "Range32", "Range256", "Range512", "SignByte">>

build_all ==
    <<ZeroRow>>
        \o build("Range16") \o build("Range17") \o build("Range32")
        \o build("Range256") \o build("Range512") \o build("SignByte")

(***************************************************************************)
(* table.rs: Lookup                                                        *)
(***************************************************************************)
\* enum Lookup: Fixed, Tx, Rw, Bytecode, and Conditional(condition, lookup).
LookupFixed(tag, values) == [kind |-> "Fixed", tag |-> tag, values |-> values]

LookupTx(id, tag, index, value) ==
    [kind |-> "Tx", id |-> id, tag |-> tag, index |-> index, value |-> value]

LookupRw(counter, is_write, tag, values) ==
    [kind |-> "Rw", counter |-> counter, is_write |-> is_write, tag |-> tag,
     values |-> values]

LookupBytecode(hash, index, value) ==
    [kind |-> "Bytecode", hash |-> hash, index |-> index, value |-> value]

\* Lookup::conditional.
conditional(self, condition) ==
    [kind |-> "Conditional", condition |-> condition, lookup |-> self]

NoLookup == [kind |-> "none"]

\* Lookup::table.
RECURSIVE table(_)
table(self) ==
    CASE self.kind = "Fixed" -> "Fixed"
      [] self.kind = "Tx" -> "Tx"
      [] self.kind = "Rw" -> "Rw"
      [] self.kind = "Bytecode" -> "Bytecode"
      [] self.kind = "Conditional" -> table(self.lookup)

\* The Conditional arm of input_exprs: .map(|expr| condition.clone() * expr).
ConditionalInputs_NotTheFirst(condition, inputs) ==
    [i \in 1..Len(inputs) |->
        IF i = 1 THEN inputs[i] ELSE Product(condition, inputs[i])]

ConditionalInputs(condition, inputs) ==
    [i \in 1..Len(inputs) |-> Product(condition, inputs[i])]

\* Lookup::input_exprs.
RECURSIVE input_exprs(_)
input_exprs(self) ==
    CASE self.kind = "Fixed" -> <<self.tag>> \o self.values
      [] self.kind = "Tx" -> <<self.id, self.tag, self.index, self.value>>
      [] self.kind = "Rw" ->
            <<self.counter, self.is_write, self.tag>> \o self.values
      [] self.kind = "Bytecode" -> <<self.hash, self.index, self.value>>
      [] self.kind = "Conditional" ->
            ConditionalInputs(self.condition, input_exprs(self.lookup))

\* The lookups gadgets register: the inputs are constants and queries of the
\* cells 0..2; the cells 3 and 4 hold conditions.
MaxConditions == 2
ValueCells == 0..2
ConditionCells == {3, 4}

BaseLookups ==
    {LookupFixed(Constant(FixedTableTag[variant]),
                 <<CellQuery(0), CellQuery(1), CellQuery(2)>>) :
        variant \in {"Range16", "SignByte", "BitwiseAnd"}}
    \cup {LookupTx(CellQuery(0), Constant(1), CellQuery(1), CellQuery(2)),
          LookupRw(CellQuery(0), Constant(1), Constant(8),
                   <<CellQuery(1), CellQuery(2), Constant(0), Constant(0),
                     Constant(0)>>),
          LookupBytecode(CellQuery(0), CellQuery(1), CellQuery(2))}

LookupCellValues ==
    {[i \in ValueCells \cup ConditionCells |->
        CASE i = 0 -> v0 [] i = 1 -> v1 [] i = 2 -> v2 [] i = 3 -> c3 [] i = 4 -> c4] :
        v0 \in {0, 3, 200}, v1 \in {0, 255}, v2 \in {0, 3},
        c3 \in {0, 1}, c4 \in {0, 1}}

\* The number of Conditionals wrapped around a lookup.
RECURSIVE ConditionalDepth(_)
ConditionalDepth(self) ==
    IF self.kind = "Conditional" THEN 1 + ConditionalDepth(self.lookup) ELSE 0

\* The inputs of a lookup at the assigned cells, and whether some row of the
\* fixed table is those inputs.
LookupInputs(self, cells) ==
    LET exprs == input_exprs(self)
    IN [i \in 1..Len(exprs) |-> Evaluate(exprs[i], cells, 0)]

InFixedTable(row) == \E k \in 1..Len(fixed_table) : fixed_table[k] = row

TableInit ==
    /\ fixed_table = <<>>
    /\ lookup = NoLookup
    /\ lookup_cells \in LookupCellValues

\* The fixed table is assigned from FixedTableTag::build_all, once.
BuildAll ==
    /\ fixed_table = <<>>
    /\ fixed_table' = build_all
    /\ UNCHANGED <<lookup, lookup_cells>>
    /\ UNCHANGED table_rest

\* A gadget registers a lookup.
AddLookup(base) ==
    /\ lookup = NoLookup
    /\ lookup' = base
    /\ UNCHANGED <<fixed_table, lookup_cells>>
    /\ UNCHANGED table_rest

\* lookup.conditional(condition) on the lookup registered.
WrapConditional(cell) ==
    /\ lookup # NoLookup
    /\ ConditionalDepth(lookup) < MaxConditions
    /\ lookup' = conditional(lookup, CellQuery(cell))
    /\ UNCHANGED <<fixed_table, lookup_cells>>
    /\ UNCHANGED table_rest

TableNext ==
    \/ BuildAll
    \/ \E base \in BaseLookups : AddLookup(base)
    \/ \E cell \in ConditionCells : WrapConditional(cell)

\* The variants in the order of the enum.
FixedTableVariantOrder ==
    <<"Range16", "Range17", "Range32", "Range256", "Range512", "SignByte",
      "BitwiseAnd", "BitwiseOr", "BitwiseXor">>

\* C13 as stated: once the table is built, every variant's rows are in it:
\* the range rows, the sign-byte rows, and for every pair of bytes the rows
\* of BitwiseAnd, BitwiseOr and BitwiseXor.
C13_Original ==
    fixed_table # <<>> =>
        /\ \A value \in 0..15 :
              InFixedTable(<<FixedTableTag["Range16"], value, 0, 0>>)
        /\ \A value \in Byte :
              InFixedTable(<<FixedTableTag["SignByte"], value,
                             (value \div 128) * 255, 0>>)
        /\ \A lhs \in Byte, rhs \in Byte :
              /\ InFixedTable(<<FixedTableTag["BitwiseAnd"], lhs, rhs,
                                BitwiseByte("&", lhs, rhs)>>)
              /\ InFixedTable(<<FixedTableTag["BitwiseOr"], lhs, rhs,
                                BitwiseByte("|", lhs, rhs)>>)
              /\ InFixedTable(<<FixedTableTag["BitwiseXor"], lhs, rhs,
                                BitwiseByte("^", lhs, rhs)>>)

\* The position of the last row of each variant build_all chains, after the
\* zero row at position 1.
SegmentEnd[i \in 0..Len(BuiltVariants)] ==
    IF i = 0 THEN 1 ELSE SegmentEnd[i - 1] + Len(build(BuiltVariants[i]))

SegmentEnds ==
    <<SegmentEnd[0], SegmentEnd[1], SegmentEnd[2], SegmentEnd[3],
      SegmentEnd[4], SegmentEnd[5], SegmentEnd[6]>>

\* The variant whose rows build_all chains at position k > 1.
VariantAt(k) ==
    BuiltVariants[CHOOSE i \in 1..Len(BuiltVariants) :
                      SegmentEnds[i] < k /\ k <= SegmentEnds[i + 1]]

\* C14: the built table starts with the zero row; every later row carries
\* the discriminant of the variant that produced it, which is not zero, so no
\* later row is the zero row; the discriminants start at Range16 = 1,
\* increase by one in the order of the enum, and differ between variants as
\* field elements, so rows of two tags never coincide.
C14_ZeroRowFirst ==
    fixed_table # <<>> =>
        /\ fixed_table[1] = ZeroRow
        /\ Len(fixed_table) = SegmentEnds[Len(SegmentEnds)]
        /\ \A k \in 2..Len(fixed_table) :
              /\ fixed_table[k][1] = from_u64(FixedTableTag[VariantAt(k)])
              /\ fixed_table[k][1] # from_u64(0)
              /\ fixed_table[k] # ZeroRow
        /\ FixedTableTag["Range16"] = 1
        /\ \A i \in 1..(Len(FixedTableVariantOrder) - 1) :
              FixedTableTag[FixedTableVariantOrder[i + 1]]
                  = FixedTableTag[FixedTableVariantOrder[i]] + 1
        /\ \A v1 \in FixedTableVariants, v2 \in FixedTableVariants :
              v1 # v2 => from_u64(FixedTableTag[v1]) # from_u64(FixedTableTag[v2])

\* C14 witness: the table built, with the first Range16 row right after the
\* zero row and the last SignByte row at the end.
C14_Witness ==
    /\ fixed_table # <<>>
    /\ fixed_table[2] = <<1, 0, 0, 0>>
    /\ fixed_table[Len(fixed_table)] = <<6, 255, 255, 0>>

\* C21: the built table has exactly 256 rows with the SignByte tag, one for
\* each byte v, of the form (tag, v, s, 0) with s = 0xFF when v >= 128 and
\* s = 0 otherwise; so for each byte exactly one sign byte is matched.
C21_SignByteRows ==
    fixed_table # <<>> =>
        LET tag == from_u64(FixedTableTag["SignByte"])
            positions == {k \in 1..Len(fixed_table) : fixed_table[k][1] = tag}
            rows == {fixed_table[k] : k \in positions}
        IN /\ Cardinality(positions) = 256
           /\ Cardinality(rows) = 256
           /\ {row[2] : row \in rows} = Byte
           /\ \A row \in rows :
                 /\ Len(row) = 4
                 /\ row[3] = (IF row[2] >= 128 THEN 255 ELSE 0)
                 /\ row[4] = 0

\* C21 witness: the table built and a SignByte lookup registered on the byte
\* 200 with sign byte 0xFF, which is a row while (tag, 200, 0, 0) is not.
C21_Witness ==
    /\ fixed_table # <<>>
    /\ lookup.kind = "Fixed"
    /\ lookup.tag = Constant(FixedTableTag["SignByte"])
    /\ LookupInputs(lookup, lookup_cells) = <<FixedTableTag["SignByte"], 200, 255, 0>>
    /\ InFixedTable(LookupInputs(lookup, lookup_cells))
    /\ ~InFixedTable(<<FixedTableTag["SignByte"], 200, 0, 0>>)

\* C22: for each of Range16, Range17, Range32, Range256 and Range512 the
\* built table has exactly N rows with the variant's tag, all different, and
\* they are the rows (tag, v, 0, 0) with 0 <= v < N: a row (tag, v, 0, 0) is
\* in the table exactly when v is in the range.
C22_RangeRows ==
    fixed_table # <<>> =>
        \A range \in {<<"Range16", 16>>, <<"Range17", 17>>, <<"Range32", 32>>,
                       <<"Range256", 256>>, <<"Range512", 512>>} :
            LET tag == from_u64(FixedTableTag[range[1]])
                positions == {k \in 1..Len(fixed_table) : fixed_table[k][1] = tag}
            IN /\ Cardinality(positions) = range[2]
               /\ {fixed_table[k] : k \in positions}
                      = {<<tag, v, 0, 0>> : v \in 0..(range[2] - 1)}

\* C22 witness: the table built and a Range16 lookup registered on the value
\* 3, which is a row; 16 is not in Range16 but is in Range17.
C22_Witness ==
    /\ fixed_table # <<>>
    /\ lookup.kind = "Fixed"
    /\ lookup.tag = Constant(FixedTableTag["Range16"])
    /\ LookupInputs(lookup, lookup_cells) = <<FixedTableTag["Range16"], 3, 0, 0>>
    /\ InFixedTable(LookupInputs(lookup, lookup_cells))
    /\ ~InFixedTable(<<FixedTableTag["Range16"], 16, 0, 0>>)
    /\ InFixedTable(<<FixedTableTag["Range17"], 16, 0, 0>>)

\* SignextendGadget::configure: the inputs of its Lookup::Fixed with the
\* SignByte tag and values [selected_byte, sign_byte, 0], at a witness w.
SignextendSignByteLookup(w) ==
    <<from_u64(FixedTableTag["SignByte"]), SignextendSelectedByte(w),
      w.sign_byte, from_u64(0)>>

\* C23: for every index and value the witness assign_exec_step computes
\* satisfies the sign-byte lookup of configure: (SignByte tag, selected_byte,
\* sign_byte, 0), with selected_byte the sum of is_selected[i] * value[i] over
\* the positions 0..30, is a row of the table build_all yields; when no
\* position is selected, selected_byte and sign_byte are both 0.
C23_SignByteLookupHolds ==
    gadget = "Signextend" =>
        /\ SignextendSignByteLookup(witness)
               \in {build_all[k] : k \in 1..Len(build_all)}
        /\ IsPivot =>
              /\ SignextendSelectedByte(witness) = ValueLe[IndexLe[0]]
              /\ witness.sign_byte = (ValueLe[IndexLe[0]] \div 128) * 255
        /\ ~IsPivot =>
              /\ SignextendSelectedByte(witness) = 0
              /\ witness.sign_byte = 0

\* C23 witness: index 2 on a value whose byte 2 is 240: the lookup is on
\* (SignByte tag, 240, 255, 0).
C23_Witness ==
    /\ gadget = "Signextend"
    /\ IndexLe[0] = 2
    /\ \A k \in 1..(WordBytes - 1) : IndexLe[k] = 0
    /\ ValueLe[0] = 1
    /\ SignextendSignByteLookup(witness) = <<FixedTableTag["SignByte"], 240, 255, 0>>

\* The lookup inside all the Conditionals, and the product of the values of
\* their conditions.
RECURSIVE WrappedLookup(_)
WrappedLookup(self) ==
    IF self.kind = "Conditional" THEN WrappedLookup(self.lookup) ELSE self

RECURSIVE ConditionProduct(_, _)
ConditionProduct(self, cells) ==
    IF self.kind = "Conditional"
    THEN FMul(Evaluate(self.condition, cells, 0),
              ConditionProduct(self.lookup, cells))
    ELSE 1

\* C15: a Conditional lookup has the table and the number of inputs of the
\* lookup it wraps, and each input is condition * the wrapped input; with the
\* condition 1 the inputs are the wrapped lookup's, with the condition 0
\* they are all 0, which for a Fixed lookup is the zero row of the built
\* table; under nested Conditionals each input is the innermost lookup's
\* input times the product of all the conditions.
C15_ConditionalLookup ==
    lookup.kind = "Conditional" =>
        LET inner == lookup.lookup
            exprs == input_exprs(lookup)
            inner_exprs == input_exprs(inner)
            condition == Evaluate(lookup.condition, lookup_cells, 0)
            inputs == LookupInputs(lookup, lookup_cells)
            inner_inputs == LookupInputs(inner, lookup_cells)
            base_inputs == LookupInputs(WrappedLookup(lookup), lookup_cells)
        IN /\ table(lookup) = table(inner)
           /\ table(lookup) = table(WrappedLookup(lookup))
           /\ Len(exprs) = Len(inner_exprs)
           /\ \A i \in 1..Len(exprs) :
                 /\ exprs[i] = Product(lookup.condition, inner_exprs[i])
                 /\ inputs[i] = FMul(ConditionProduct(lookup, lookup_cells),
                                     base_inputs[i])
           /\ condition = 1 => \A i \in 1..Len(exprs) : inputs[i] = inner_inputs[i]
           /\ condition = 0 =>
                 /\ \A i \in 1..Len(exprs) : inputs[i] = 0
                 /\ (table(lookup) = "Fixed" /\ fixed_table # <<>>) =>
                        /\ <<inputs[1], inputs[2], inputs[3], inputs[4]>> = ZeroRow
                        /\ InFixedTable(<<inputs[1], inputs[2], inputs[3], inputs[4]>>)

\* C15 witness: a SignByte lookup of (200, 255, 3), which is no row of the
\* built table, under two Conditionals of which the outer is disabled.
C15_Witness ==
    /\ fixed_table # <<>>
    /\ lookup.kind = "Conditional"
    /\ lookup.condition = CellQuery(4)
    /\ lookup.lookup.kind = "Conditional"
    /\ lookup.lookup.condition = CellQuery(3)
    /\ lookup.lookup.lookup.kind = "Fixed"
    /\ lookup.lookup.lookup.tag = Constant(FixedTableTag["SignByte"])
    /\ lookup_cells[0] = 200 /\ lookup_cells[1] = 255 /\ lookup_cells[2] = 3
    /\ lookup_cells[3] = 1 /\ lookup_cells[4] = 0
    /\ ~InFixedTable(<<FixedTableTag["SignByte"], 200, 255, 3>>)

(***************************************************************************)
(* util.rs: Cell::assign and RandomLinearCombination::assign               *)
(***************************************************************************)
\* Option and Result.
None == [some |-> FALSE]
Some(value) == [some |-> TRUE, value |-> value]
Ok(value) == [ok |-> TRUE, value |-> value]
Err(error) == [ok |-> FALSE, error |-> error]
SynthesisError == "SynthesisError"

\* Cell { column, rotation }.
Cell(column, rotation) == [column |-> column, rotation |-> rotation]

\* The region: no cell assigned, and a region with some cells written over.
EmptyRegion == <<>>

Written(reg, cells) ==
    [key \in DOMAIN cells \cup DOMAIN reg |->
        IF key \in DOMAIN cells THEN cells[key] ELSE reg[key]]

\* The row Cell::assign names: offset + self.rotation.
CellRow_Rotation(cell, offset) == cell.rotation

CellRow(cell, offset) == offset + cell.rotation

\* Cell::assign: region.assign_advice(.., column, offset + rotation,
\* || value.ok_or(Error::SynthesisError)); with no value the error comes back
\* and the region has no new cell.
Cell_assign(reg, cell, offset, value) ==
    IF value.some
    THEN [result |-> Ok(<<cell.column, CellRow(cell, offset)>>),
          region |-> Written(reg, <<cell.column, CellRow(cell, offset)>>
                                      :> value.value)]
    ELSE [result |-> Err(SynthesisError), region |-> reg]

\* RandomLinearCombination::assign: map_or(Err(SynthesisError), |word| the
\* cells zipped with the bytes, each assigned Some(F::from_u64(byte)),
\* collected into one Result).
RandomLinearCombination_assign_Defaulted(reg, cells, offset, word) ==
    LET bytes == IF word.some THEN word.value
                 ELSE [i \in DOMAIN cells |-> 0]
        each == [i \in DOMAIN cells |->
                    Cell_assign(reg, cells[i], offset, Some(from_u64(bytes[i])))]
    IN [result |-> Ok([i \in DOMAIN cells |-> each[i].result.value]),
        region |-> Written(reg,
                      [key \in {each[i].result.value : i \in DOMAIN cells} |->
                          LET i == CHOOSE i \in DOMAIN cells :
                                       each[i].result.value = key
                          IN from_u64(bytes[i])])]

RandomLinearCombination_assign(reg, cells, offset, word) ==
    IF ~word.some
    THEN [result |-> Err(SynthesisError), region |-> reg]
    ELSE LET each == [i \in DOMAIN cells \cap DOMAIN word.value |->
                         Cell_assign(reg, cells[i], offset,
                                     Some(from_u64(word.value[i])))]
         IN IF \E i \in DOMAIN each : ~each[i].result.ok
            THEN LET failed == CHOOSE i \in DOMAIN each :
                                  /\ ~each[i].result.ok
                                  /\ \A j \in DOMAIN each :
                                         j < i => each[j].result.ok
                 IN [result |-> Err(SynthesisError),
                     region |->
                         Written(reg,
                             [key \in {each[i].result.value :
                                         i \in {j \in DOMAIN each : j < failed}} |->
                                 LET i == CHOOSE i \in DOMAIN each :
                                              /\ i < failed
                                              /\ each[i].result.value = key
                                 IN from_u64(word.value[i])])]
            ELSE [result |-> Ok([i \in DOMAIN each |-> each[i].result.value]),
                  region |->
                      Written(reg,
                          [key \in {each[i].result.value : i \in DOMAIN each} |->
                              LET i == CHOOSE i \in DOMAIN each :
                                           each[i].result.value = key
                              IN from_u64(word.value[i])])]

(***************************************************************************)
(* The calls of Cell::assign and RandomLinearCombination::assign           *)
(***************************************************************************)
MaxOffset == 1

NoCall == [call |-> "none"]

\* The cells assigned one at a time, and the N = 32 byte cells of a word.
SingleCells == {Cell(WordBytes, rotation) : rotation \in 0..1}
WordCells(rotation) == [i \in 0..(WordBytes - 1) |-> Cell(i, rotation)]

CellValues == {None, Some(5)}
WordValues == {None, Some([i \in 0..(WordBytes - 1) |-> 255 - i])}

CellInit ==
    /\ region = EmptyRegion
    /\ cell_call = NoCall
    /\ assign_trace = [steps |-> <<>>, rws |-> <<>>]
    /\ results = <<>>

CellAssign ==
    /\ \E cell \in SingleCells, offset \in 0..MaxOffset, value \in CellValues :
          LET assigned == Cell_assign(region, cell, offset, value)
          IN /\ region' = assigned.region
             /\ cell_call' = [call |-> "Cell::assign", cell |-> cell,
                              offset |-> offset, value |-> value,
                              result |-> assigned.result]
    /\ UNCHANGED <<assign_trace, results>>
    /\ UNCHANGED assign_rest

WordAssign ==
    /\ \E offset \in 0..MaxOffset, word \in WordValues :
          LET cells == WordCells(0)
              assigned == RandomLinearCombination_assign(region, cells,
                                                         offset, word)
          IN /\ region' = assigned.region
             /\ cell_call' = [call |-> "RandomLinearCombination::assign",
                              cells |-> cells, offset |-> offset,
                              word |-> word, result |-> assigned.result]
    /\ UNCHANGED <<assign_trace, results>>
    /\ UNCHANGED assign_rest

CellNext == CellAssign \/ WordAssign

\* C19: Cell::assign with no value returns the synthesis error and leaves the
\* region as it was; RandomLinearCombination::assign with no word returns the
\* synthesis error and assigns none of its N byte cells; with a word it
\* assigns byte cell i the field element of bytes[i], for each i in 0..N-1,
\* at row offset + rotation, and no other cell.
C19_AssignNone ==
    [][ /\ (cell_call'.call = "Cell::assign" /\ ~cell_call'.value.some) =>
              /\ cell_call'.result = Err(SynthesisError)
              /\ region' = region
        /\ (cell_call'.call = "RandomLinearCombination::assign"
                /\ ~cell_call'.word.some) =>
              /\ cell_call'.result = Err(SynthesisError)
              /\ region' = region
        /\ (cell_call'.call = "RandomLinearCombination::assign"
                /\ cell_call'.word.some) =>
              LET cells == cell_call'.cells
                  row(i) == cell_call'.offset + cells[i].rotation
                  keys == {<<cells[i].column, row(i)>> : i \in 0..(WordBytes - 1)}
              IN /\ cell_call'.result.ok
                 /\ DOMAIN cells = 0..(WordBytes - 1)
                 /\ \A i \in 0..(WordBytes - 1) :
                        /\ <<cells[i].column, row(i)>> \in DOMAIN region'
                        /\ region'[<<cells[i].column, row(i)>>]
                               = from_u64(cell_call'.word.value[i])
                 /\ DOMAIN region' = DOMAIN region \cup keys
                 /\ \A key \in DOMAIN region \ keys : region'[key] = region[key]
      ]_vars

\* A word assign with no word, made when cells of an earlier word and an
\* earlier single cell are in the region.
C19_Witness ==
    /\ cell_call.call = "RandomLinearCombination::assign"
    /\ ~cell_call.word.some
    /\ cell_call.result = Err(SynthesisError)
    /\ <<0, 1>> \in DOMAIN region
    /\ <<WordBytes, 1>> \in DOMAIN region

(***************************************************************************)
(* assign_exec_step of the steps of a trace                                *)
(***************************************************************************)
MaxAssignSteps == 2

\* The rows of one step and the columns of the circuit; the cell queried k-th
\* by a gadget is at column k % StepWidth with rotation k \div StepWidth.
StepWidth == 32
StepHeight == 10

QueryCell(k) == Cell(k % StepWidth, k \div StepWidth)

\* The step at position step_idx (from 1) is assigned at this offset.
StepOffset(step_idx) == (step_idx - 1) * StepHeight

\* What an assign_exec_step comes to: Ok(()), an Err(..), or a panic that
\* unwinds out of it.
Unit == <<>>
Panic(message) == [panic |-> message]
Pending == [pending |-> TRUE]

\* The read-write log of the traces assigned: the comparator test's and the
\* signextend test's entries, one after the other.
AssignWordA == HalfTop1 \o HalfZero
AssignWordB == HalfZero \o HalfOnes
AssignIndex == SignextendIndexWord(1, 0)
AssignValue == WordOfLe([i \in 0..(WordBytes - 1) |-> 128])
AssignZero  == WordOfLe([i \in 0..(WordBytes - 1) |-> 0])

AssignRws ==
    <<StackRw(1, FALSE, 1022, AssignWordA), StackRw(2, FALSE, 1023, AssignWordB),
      StackRw(3, TRUE, 1023, AssignZero),
      StackRw(4, FALSE, 1022, AssignIndex), StackRw(5, FALSE, 1023, AssignValue),
      StackRw(6, TRUE, 1023, AssignValue)>>

\* A step of the trace; its opcode is an Option.
AssignStepOf(trace, opcode, rw_indices) ==
    [trace.step EXCEPT !.opcode = opcode, !.rw_indices = rw_indices]

ConsistentSteps ==
    {AssignStepOf(ComparatorTrace(OpcodeId_LT, AssignWordA, AssignWordB),
                  Some(OpcodeId_LT), <<0, 1, 2>>),
     AssignStepOf(SignextendTrace(AssignIndex, AssignValue),
                  Some(OpcodeId_SIGNEXTEND), <<3, 4, 5>>),
     AssignStepOf(JumpdestTrace(3), Some(OpcodeId_JUMPDEST), <<>>)}

\* Steps that do not fit the trace: rw_indices too short, an rw index past
\* the end of rws, no opcode.
InconsistentSteps ==
    {AssignStepOf(ComparatorTrace(OpcodeId_GT, AssignWordA, AssignWordB),
                  Some(OpcodeId_GT), <<0>>),
     AssignStepOf(SignextendTrace(AssignIndex, AssignValue),
                  Some(OpcodeId_SIGNEXTEND), <<3, 9, 10>>),
     AssignStepOf(ComparatorTrace(OpcodeId_LT, AssignWordA, AssignWordB),
                  None, <<0, 1, 2>>)}

AssignTraces ==
    {[steps |-> step_list, rws |-> AssignRws] :
        step_list \in UNION {[1..n -> ConsistentSteps \cup InconsistentSteps] :
                            n \in 1..MaxAssignSteps}}

\* exec_trace.steps[step_idx] with its opcode unwrapped, and exec_trace.rws.
StepTrace(trace, step_idx) ==
    [step |-> [trace.steps[step_idx] EXCEPT !.opcode = @.value],
     rws |-> trace.rws]

\* step.rw_indices[k] and exec_trace.rws[idx] index without a check: either
\* panics when out of bounds.
RwIndexInBounds(step, k) == k < Len(step.rw_indices)

RwInBounds(trace, step, k) ==
    /\ RwIndexInBounds(step, k)
    /\ step.rw_indices[k + 1] < Len(trace.rws)

\* The values of the cells a gadget assigns, in the order of its cells.
WordCellValues(bytes) == [k \in 1..WordBytes |-> from_u64(bytes[k - 1])]

ComparatorCells(w) ==
    <<w.opcode, w.sufficient_gas_left, w.is_eq, w.is_gt,
      w.comparison_lo.lt, w.comparison_lo.eq,
      w.comparison_hi.lt, w.comparison_hi.eq>>
        \o WordCellValues(w.a) \o WordCellValues(w.b)

SignextendCells(w) ==
    <<w.opcode, w.sufficient_gas_left>>
        \o WordCellValues(w.index) \o WordCellValues(w.value)
        \o <<w.is_msb_sum_zero>>
        \o [k \in 1..NumSelectors |-> w.is_byte_selected[k - 1]]
        \o [k \in 1..NumSelectors |-> w.selectors[k - 1]]
        \o <<w.sign_byte>>

JumpdestCells(w) == <<w.opcode, w.sufficient_gas_left>>

\* ComparatorGadget::assign_exec_step: step.opcode.unwrap(), the opcode, gas,
\* is_eq and is_gt cells, then the two rws read through rw_indices.
ComparatorAssignExecStep(trace, step_idx) ==
    LET step == trace.steps[step_idx]
    IN IF ~step.opcode.some
       THEN [result |-> Panic("unwrap on a None value"),
             cells |-> <<>>]
       ELSE LET opcode == from_u64(step.opcode.value)
                gas == RangeCheck(from_u64(step.gas_left - step.gas_cost))
                is_eq == IsEqual(opcode, from_u64(OpcodeId_EQ))
                is_gt == ComparatorAssignGtFlag(step.opcode.value)
            IN IF ~(RwInBounds(trace, step, 0) /\ RwInBounds(trace, step, 1))
               THEN [result |-> Panic("index out of bounds"),
                     cells |-> <<opcode, gas, is_eq, is_gt>>]
               ELSE [result |-> Ok(Unit),
                     cells |-> ComparatorCells(
                                   ComparatorAssign(StepTrace(trace, step_idx)))]

\* SignextendGadget::assign_exec_step: step.opcode.unwrap(), the opcode and
\* gas cells, then the two rws read through rw_indices.
SignextendAssignExecStep(trace, step_idx) ==
    LET step == trace.steps[step_idx]
    IN IF ~step.opcode.some
       THEN [result |-> Panic("unwrap on a None value"),
             cells |-> <<>>]
       ELSE IF ~(RwInBounds(trace, step, 0) /\ RwInBounds(trace, step, 1))
       THEN [result |-> Panic("index out of bounds"),
             cells |-> <<from_u64(step.opcode.value),
                         RangeCheck(from_u64(step.gas_left - step.gas_cost))>>]
       ELSE [result |-> Ok(Unit),
             cells |-> SignextendCells(
                           SignextendAssign(StepTrace(trace, step_idx)))]

\* JumpdestGadget::assign_exec_step: step.opcode.unwrap(), the opcode and gas
\* cells.
JumpdestAssignExecStep(trace, step_idx) ==
    LET step == trace.steps[step_idx]
    IN IF ~step.opcode.some
       THEN [result |-> Panic("unwrap on a None value"),
             cells |-> <<>>]
       ELSE [result |-> Ok(Unit),
             cells |-> JumpdestCells(JumpdestAssign(StepTrace(trace, step_idx)))]

assign_exec_step(trace, step_idx) ==
    CASE trace.steps[step_idx].execution_result = "LT" ->
            ComparatorAssignExecStep(trace, step_idx)
      [] trace.steps[step_idx].execution_result = "SIGNEXTEND" ->
            SignextendAssignExecStep(trace, step_idx)
      [] trace.steps[step_idx].execution_result = "JUMPDEST" ->
            JumpdestAssignExecStep(trace, step_idx)

\* The cells of the region the step's assigns wrote: the k-th value through
\* Cell::assign of the k-th cell at the step's offset.
StepWrites(trace, step_idx) ==
    LET values == assign_exec_step(trace, step_idx).cells
        key(k) == <<QueryCell(k - 1).column,
                    CellRow(QueryCell(k - 1), StepOffset(step_idx))>>
    IN [cell \in {key(k) : k \in 1..Len(values)} |->
           values[CHOOSE k \in 1..Len(values) : key(k) = cell]]

AssignInit ==
    /\ assign_trace \in AssignTraces
    /\ results = [step_idx \in 1..Len(assign_trace.steps) |-> Pending]
    /\ region = EmptyRegion
    /\ cell_call = NoCall

\* The assignment of one step not yet assigned, whichever.
StepAssigned(execution_result) ==
    \E step_idx \in DOMAIN results :
        /\ results[step_idx] = Pending
        /\ assign_trace.steps[step_idx].execution_result = execution_result
        /\ region' = Written(region, StepWrites(assign_trace, step_idx))
        /\ results' = [results EXCEPT
                          ![step_idx] =
                              assign_exec_step(assign_trace, step_idx).result]

AssignComparatorStep ==
    /\ StepAssigned("LT")
    /\ UNCHANGED <<assign_trace, cell_call>>
    /\ UNCHANGED assign_rest

AssignSignextendStep ==
    /\ StepAssigned("SIGNEXTEND")
    /\ UNCHANGED <<assign_trace, cell_call>>
    /\ UNCHANGED assign_rest

AssignJumpdestStep ==
    /\ StepAssigned("JUMPDEST")
    /\ UNCHANGED <<assign_trace, cell_call>>
    /\ UNCHANGED assign_rest

AssignNext ==
    \/ AssignComparatorStep
    \/ AssignSignextendStep
    \/ AssignJumpdestStep

\* The rw_indices the gadget of a step reads.
StepReads(step) == IF step.execution_result = "JUMPDEST" THEN 0 ELSE 2

\* C16: assign_exec_step on a step that does not fit its trace (rw_indices
\* shorter than the gadget reads, an rw index past the end of rws, no opcode)
\* returns an Err(..), and no assign_exec_step panics.
C16_Original ==
    \A step_idx \in DOMAIN results :
        LET step == assign_trace.steps[step_idx]
            inconsistent ==
                \/ ~step.opcode.some
                \/ Len(step.rw_indices) < StepReads(step)
                \/ \E k \in 1..StepReads(step) :
                       /\ k <= Len(step.rw_indices)
                       /\ step.rw_indices[k] >= Len(assign_trace.rws)
        IN results[step_idx] # Pending =>
              /\ "panic" \notin DOMAIN results[step_idx]
              /\ inconsistent => "error" \in DOMAIN results[step_idx]

\* The region after the steps are assigned one after the other, first to
\* last: a cell holds what the last step that wrote it assigned.
SequentialRegion(trace) ==
    LET writes == [step_idx \in DOMAIN trace.steps |-> StepWrites(trace, step_idx)]
        last(cell) == CHOOSE step_idx \in DOMAIN writes :
                         /\ cell \in DOMAIN writes[step_idx]
                         /\ \A later \in DOMAIN writes :
                                cell \in DOMAIN writes[later] => later <= step_idx
    IN [cell \in UNION {DOMAIN writes[step_idx] : step_idx \in DOMAIN writes} |->
           writes[last(cell)][cell]]

ContainerIdle == ContainerInit

GadgetIdle ==
    /\ exec_trace = NoTrace
    /\ witness = NoWitness
    /\ gadget = "none"

RlcIdle ==
    /\ rlc_bytes = <<>>
    /\ rlc_randomness = 0
    /\ rlc_value = 0
    /\ rlc_expr = Constant(0)
    /\ rlc_done = {}

TraceIdle == steps = <<>>

TableIdle ==
    /\ fixed_table = <<>>
    /\ lookup = NoLookup
    /\ lookup_cells = <<>>

AssignIdle ==
    /\ region = EmptyRegion
    /\ cell_call = NoCall
    /\ assign_trace = [steps |-> <<>>, rws |-> <<>>]
    /\ results = <<>>

(***************************************************************************)
(* Specifications                                                          *)
(***************************************************************************)
InitContainer ==
    ContainerInit /\ GadgetIdle /\ RlcIdle /\ TraceIdle /\ TableIdle
        /\ AssignIdle

SpecContainer == InitContainer /\ [][ContainerNext]_vars

InitGadget ==
    ContainerIdle /\ GadgetInit /\ RlcIdle /\ TraceIdle /\ TableIdle
        /\ AssignIdle

SpecGadget == InitGadget /\ [][GadgetNext]_vars

InitRLC ==
    ContainerIdle /\ GadgetIdle /\ RlcInit /\ TraceIdle /\ TableIdle
        /\ AssignIdle

SpecRLC == InitRLC /\ [][RlcNext]_vars

InitTrace ==
    ContainerIdle /\ GadgetIdle /\ RlcIdle /\ TraceInit /\ TableIdle
        /\ AssignIdle

SpecTrace == InitTrace /\ [][TraceNext]_vars

InitTable ==
    ContainerIdle /\ GadgetIdle /\ RlcIdle /\ TraceIdle /\ TableInit
        /\ AssignIdle

SpecTable == InitTable /\ [][TableNext]_vars

InitCell ==
    ContainerIdle /\ GadgetIdle /\ RlcIdle /\ TraceIdle /\ TableIdle
        /\ CellInit

SpecCell == InitCell /\ [][CellNext]_vars

InitAssign ==
    ContainerIdle /\ GadgetIdle /\ RlcIdle /\ TraceIdle /\ TableIdle
        /\ AssignInit

SpecAssign == InitAssign /\ [][AssignNext]_vars

=============================================================================
